---- MODULE Spec2Model ----
(***************************************************************************)
(* Trade-performance analytics of the trade journal (utils/analytics.ts).  *)
(* The aggregators are pure functions of a list of Trade records; the      *)
(* state machine holds the caller's list and the result of the last call.  *)
(*                                                                         *)
(* JavaScript numbers are modelled as exact fractions <<n, d>> in lowest   *)
(* terms, with the IEEE special values as fractions of denominator 0:      *)
(* <<1,0>> is Infinity, <<-1,0>> is -Infinity, <<0,0>> is NaN.  Rounding   *)
(* of binary floating point is outside the model.                          *)
(*                                                                         *)
(* Further parts model the mt5-webhook function with the key management    *)
(* of useWebhookKeys, and the useTrades hook with its trades table.        *)
(***************************************************************************)
EXTENDS Integers, Sequences, FiniteSets, TLC

VARIABLES trades, result, webhook_api_keys, requests, clock,
          user, trades_table, pending, channel

vars == <<trades, result, webhook_api_keys, requests, clock,
          user, trades_table, pending, channel>>

\* the state of the backend: the webhook_api_keys table, the requests of the
\* mt5-webhook function, the time of new Date() and now()
backendVars == <<webhook_api_keys, requests, clock>>

\* the state of the useTrades hook besides its list: the signed-in user, the
\* trades table it reads and writes, its calls in flight and the INSERT events
\* of its realtime channel that are not delivered yet
hookVars == <<user, trades_table, pending, channel>>

(* ---------------------------------------------------------------------- *)
(* Bounds                                                                  *)
(* ---------------------------------------------------------------------- *)
MaxTrades == 2

(* ---------------------------------------------------------------------- *)
(* null                                                                    *)
(* ---------------------------------------------------------------------- *)
\* null in a numeric or date field (a number is a pair, a date a triple)
NullNum == <<>>
\* null in a string field; no stored string has this value
NullStr == "<null>"

\* emotions_array as it may arrive: a native array of strings, a string, or
\* null; strings of this field are sequences of one-character strings
EmoArray(items) == [kind |-> "array", val |-> items]
EmoString(chars) == [kind |-> "string", val |-> chars]
EmoNull == [kind |-> "null", val |-> <<>>]

(* ---------------------------------------------------------------------- *)
(* Numbers                                                                 *)
(* ---------------------------------------------------------------------- *)
AbsInt(i) == IF i < 0 THEN -i ELSE i

SignInt(i) == IF i > 0 THEN 1 ELSE IF i < 0 THEN -1 ELSE 0

RECURSIVE GCD(_, _)
GCD(a, b) == IF b = 0 THEN a ELSE GCD(b, a % b)

\* lowest terms, sign carried by the numerator, denominator 0 for the specials
Norm(n, d) ==
  IF d = 0 THEN <<SignInt(n), 0>>
  ELSE LET g == GCD(AbsInt(n), AbsInt(d))
           s == IF d < 0 THEN -1 ELSE 1
       IN  <<(s * n) \div g, (s * d) \div g>>

Num(i) == <<i, 1>>
Zero == Num(0)
Infinity == <<1, 0>>
NegInfinity == <<-1, 0>>
NaN == <<0, 0>>

IsNaN(x) == x = NaN
IsFinite(x) == x[2] # 0

NumAdd(x, y) ==
  IF x[2] = 0 /\ y[2] = 0
  THEN (IF x = y THEN x ELSE NaN)
  ELSE Norm(x[1] * y[2] + y[1] * x[2], x[2] * y[2])

NumNeg(x) == <<-x[1], x[2]>>
NumSub(x, y) == NumAdd(x, NumNeg(y))
NumMul(x, y) == Norm(x[1] * y[1], x[2] * y[2])
NumDiv(x, y) == Norm(x[1] * y[2], x[2] * y[1])
NumAbs(x) == <<AbsInt(x[1]), x[2]>>

\* x > y as JavaScript compares numbers: false when either side is NaN
NumGt(x, y) ==
  /\ ~IsNaN(x) /\ ~IsNaN(y)
  /\ IF x[2] = 0 /\ y[2] = 0 THEN x[1] > y[1]
     ELSE IF x[2] = 0 THEN x[1] > 0
     ELSE IF y[2] = 0 THEN y[1] < 0
     ELSE x[1] * y[2] > y[1] * x[2]

NumGe(x, y) == ~IsNaN(x) /\ ~IsNaN(y) /\ ~NumGt(y, x)

\* a || b on a nullable number: null, 0 and NaN are falsy
NumOr(a, b) == IF a = NullNum \/ a = Zero \/ a = NaN THEN b ELSE a

\* truthiness of a nullable string: null and "" are falsy
Truthy(s) == s # NullStr /\ s # ""

RECURSIVE SumSeq(_)
SumSeq(s) == IF s = <<>> THEN Zero ELSE NumAdd(SumSeq(SubSeq(s, 1, Len(s) - 1)), s[Len(s)])

\* Math.max(...xs) and Math.min(...xs) of a non-empty list
RECURSIVE MathMax(_)
MathMax(s) ==
  IF Len(s) = 1 THEN s[1]
  ELSE LET m == MathMax(SubSeq(s, 1, Len(s) - 1))
       IN  IF IsNaN(m) \/ IsNaN(s[Len(s)]) THEN NaN
           ELSE IF NumGt(s[Len(s)], m) THEN s[Len(s)] ELSE m

RECURSIVE MathMin(_)
MathMin(s) ==
  IF Len(s) = 1 THEN s[1]
  ELSE LET m == MathMin(SubSeq(s, 1, Len(s) - 1))
       IN  IF IsNaN(m) \/ IsNaN(s[Len(s)]) THEN NaN
           ELSE IF NumGt(m, s[Len(s)]) THEN s[Len(s)] ELSE m

\* xs.map(f) for an operator f
MapSeq(f(_), s) == [i \in 1..Len(s) |-> f(s[i])]

(* ---------------------------------------------------------------------- *)
(* calculateStats                                                          *)
(* ---------------------------------------------------------------------- *)
\* lines 47-52: the reducer of totalPL
calculateStats_pl(t) ==
  IF t.reward_amount # NullNum
  THEN (IF t.status = "loss" THEN NumNeg(NumAbs(t.reward_amount)) ELSE t.reward_amount)
  ELSE NumOr(t.profit_loss, Zero)

\* lines 54-55, 61-62: Math.abs(t.reward_amount || t.profit_loss || 0)
calculateStats_magnitude(t) ==
  NumAbs(NumOr(NumOr(t.reward_amount, t.profit_loss), Zero))

\* mutant: the completion test of the legacy aggregator (status !== 'open')
calculateStats_completed_legacy(ts) == SelectSeq(ts, LAMBDA t : t.status # "open")

\* line 41: trades.filter(t => t.status)
calculateStats_completed(ts) == SelectSeq(ts, LAMBDA t : Truthy(t.status))

\* mutant: the quotient without its guards
calculateStats_profitFactor_unguarded(totalWinAmount, totalLossAmount) ==
  NumDiv(totalWinAmount, totalLossAmount)

\* line 68
calculateStats_profitFactor(totalWinAmount, totalLossAmount) ==
  IF NumGt(totalLossAmount, Zero) THEN NumDiv(totalWinAmount, totalLossAmount)
  ELSE IF NumGt(totalWinAmount, Zero) THEN Infinity ELSE Zero

\* line 77
calculateStats_winRate(nWins, nCompleted) ==
  IF nCompleted > 0 THEN NumMul(NumDiv(Num(nWins), Num(nCompleted)), Num(100)) ELSE Zero

\* line 80
calculateStats_lossRate(nLosses, nCompleted) ==
  IF nCompleted > 0 THEN NumDiv(Num(nLosses), Num(nCompleted)) ELSE Zero

\* mutant: every trade that is not a win weighed as a loss
calculateStats_expectancy_complement(winRate, averageWin, lossRate, averageLoss) ==
  NumSub(NumMul(NumDiv(winRate, Num(100)), averageWin),
         NumMul(NumSub(Num(1), NumDiv(winRate, Num(100))), averageLoss))

\* line 81
calculateStats_expectancy(winRate, averageWin, lossRate, averageLoss) ==
  NumSub(NumMul(NumDiv(winRate, Num(100)), averageWin), NumMul(lossRate, averageLoss))

\* mutant: the ratio of the averages whenever there is a losing amount
calculateStats_averageRR_derived(tradesWithRR, averageWin, averageLoss) ==
  IF NumGt(averageLoss, Zero) THEN NumDiv(averageWin, averageLoss)
  ELSE IF Len(tradesWithRR) > 0
  THEN NumDiv(SumSeq(MapSeq(LAMBDA t : NumOr(t.risk_reward_ratio, Zero), tradesWithRR)),
              Num(Len(tradesWithRR)))
  ELSE Zero

\* lines 72-74
calculateStats_averageRR(tradesWithRR, averageWin, averageLoss) ==
  IF Len(tradesWithRR) > 0
  THEN NumDiv(SumSeq(MapSeq(LAMBDA t : NumOr(t.risk_reward_ratio, Zero), tradesWithRR)),
              Num(Len(tradesWithRR)))
  ELSE IF NumGt(averageLoss, Zero) THEN NumDiv(averageWin, averageLoss) ELSE Zero

\* mutant: the average over all the completed trades
calculateStats_fieldAverage_overCompleted(total, nWithField, nCompleted) ==
  IF nCompleted > 0 THEN NumDiv(total, Num(nCompleted)) ELSE Zero

\* lines 86, 91: the sum divided by the number of trades that have the field
calculateStats_fieldAverage(total, nWithField, nCompleted) ==
  IF nWithField > 0 THEN NumDiv(total, Num(nWithField)) ELSE Zero

\* lines 40-112
calculateStats(ts) ==
  LET completedTrades == calculateStats_completed(ts)
      wins      == SelectSeq(completedTrades, LAMBDA t : t.status = "win")
      losses    == SelectSeq(completedTrades, LAMBDA t : t.status = "loss")
      breakeven == SelectSeq(completedTrades, LAMBDA t : t.status = "breakeven")
      totalPL   == SumSeq(MapSeq(calculateStats_pl, completedTrades))
      totalWinAmount  == SumSeq(MapSeq(calculateStats_magnitude, wins))
      totalLossAmount == SumSeq(MapSeq(calculateStats_magnitude, losses))
      averageWin  == IF Len(wins) > 0 THEN NumDiv(totalWinAmount, Num(Len(wins))) ELSE Zero
      averageLoss == IF Len(losses) > 0 THEN NumDiv(totalLossAmount, Num(Len(losses))) ELSE Zero
      winAmounts  == MapSeq(calculateStats_magnitude, wins)
      lossAmounts == MapSeq(LAMBDA t : NumNeg(calculateStats_magnitude(t)), losses)
      largestWin  == IF Len(winAmounts) > 0 THEN MathMax(winAmounts) ELSE Zero
      largestLoss == IF Len(lossAmounts) > 0 THEN MathMin(lossAmounts) ELSE Zero
      profitFactor == calculateStats_profitFactor(totalWinAmount, totalLossAmount)
      tradesWithRR == SelectSeq(completedTrades, LAMBDA t : t.risk_reward_ratio # NullNum)
      averageRR == calculateStats_averageRR(tradesWithRR, averageWin, averageLoss)
      winRate  == calculateStats_winRate(Len(wins), Len(completedTrades))
      lossRate == calculateStats_lossRate(Len(losses), Len(completedTrades))
      expectancy == calculateStats_expectancy(winRate, averageWin, lossRate, averageLoss)
      tradesWithRisk == SelectSeq(completedTrades, LAMBDA t : t.risk_amount # NullNum)
      totalRiskAmount == SumSeq(MapSeq(LAMBDA t : NumOr(t.risk_amount, Zero), tradesWithRisk))
      averageRiskAmount ==
        calculateStats_fieldAverage(totalRiskAmount, Len(tradesWithRisk), Len(completedTrades))
      tradesWithPips == SelectSeq(completedTrades, LAMBDA t : t.pips # NullNum)
      totalPips == SumSeq(MapSeq(LAMBDA t : NumOr(t.pips, Zero), tradesWithPips))
      averagePips ==
        calculateStats_fieldAverage(totalPips, Len(tradesWithPips), Len(completedTrades))
  IN  [ totalTrades       |-> Len(completedTrades),
        winningTrades     |-> Len(wins),
        losingTrades      |-> Len(losses),
        breakevenTrades   |-> Len(breakeven),
        winRate           |-> winRate,
        totalProfitLoss   |-> totalPL,
        averageWin        |-> averageWin,
        averageLoss       |-> averageLoss,
        largestWin        |-> largestWin,
        largestLoss       |-> largestLoss,
        profitFactor      |-> profitFactor,
        averageRR         |-> averageRR,
        expectancy        |-> expectancy,
        averageRiskAmount |-> averageRiskAmount,
        totalRiskAmount   |-> totalRiskAmount,
        averagePips       |-> averagePips,
        totalPips         |-> totalPips ]

(* ---------------------------------------------------------------------- *)
(* Arrays, sorting, dates                                                  *)
(* ---------------------------------------------------------------------- *)
\* Array.prototype.sort with a numeric comparator ka - kb (ascending in the
\* key, stable): the sorted order of the indices of s, k[i] being the key of s[i]
StableOrderByKey(k) ==
  LET Insert(sorted, n) ==
        LET later == {j \in 1..Len(sorted) : NumGt(k[sorted[j]], k[n])}
            at == IF later = {} THEN Len(sorted) + 1
                  ELSE CHOOSE j \in later : \A j2 \in later : j <= j2
        IN  SubSeq(sorted, 1, at - 1) \o <<n>> \o SubSeq(sorted, at, Len(sorted))
      RECURSIVE Go(_)
      Go(n) == IF n = 0 THEN <<>> ELSE Insert(Go(n - 1), n)
  IN  Go(Len(k))

StableSortByKey(s, k) ==
  LET order == StableOrderByKey(k) IN [i \in 1..Len(s) |-> s[order[i]]]

\* the distinct elements of s in the order of their first occurrence: the key
\* order of an object filled by a reducer, and the order of Array.from(new Set(s))
RECURSIVE DistinctInOrder(_)
DistinctInOrder(s) ==
  IF s = <<>> THEN <<>>
  ELSE LET front == DistinctInOrder(SubSeq(s, 1, Len(s) - 1))
           x == s[Len(s)]
       IN  IF \E i \in 1..Len(front) : front[i] = x THEN front ELSE Append(front, x)

Contains(s, x) == \E i \in 1..Len(s) : s[i] = x

\* a date string is modelled by its civil date <<year, month, day>>;
\* days since 1970-01-01 of a civil date
DaysFromCivil(date) ==
  LET y   == IF date[2] <= 2 THEN date[1] - 1 ELSE date[1]
      era == y \div 400
      yoe == y - era * 400
      mp  == IF date[2] > 2 THEN date[2] - 3 ELSE date[2] + 9
      doy == (153 * mp + 2) \div 5 + date[3] - 1
      doe == yoe * 365 + yoe \div 4 - yoe \div 100 + doy
  IN  era * 146097 + doe - 719468

\* new Date(s).getTime(), in days instead of milliseconds (a date string of
\* the model has no time of day); new Date(null).getTime() is 0
GetTime(date) == IF date = NullNum THEN Num(0) ELSE Num(DaysFromCivil(date))

\* mutant: the week counted from Monday
GetDay_mondayFirst(date) == (DaysFromCivil(date) + 3) % 7

\* new Date(s).getDay(): 0 = Sunday; 1970-01-01 was a Thursday
GetDay(date) == (DaysFromCivil(date) + 4) % 7

\* new Date(s).toLocaleDateString(): month/day/year
ToLocaleDateString(date) == <<date[2], date[3], date[1]>>

(* ---------------------------------------------------------------------- *)
(* getEquityCurve                                                          *)
(* ---------------------------------------------------------------------- *)
\* mutant: the legacy resolution, profit_loss alone
getEquityCurve_pl_legacy(t) == NumOr(t.profit_loss, Zero)

\* lines 121-123
getEquityCurve_pl(t) ==
  IF t.reward_amount # NullNum
  THEN (IF t.status = "loss" THEN NumNeg(NumAbs(t.reward_amount)) ELSE t.reward_amount)
  ELSE NumOr(t.profit_loss, Zero)

\* mutant: the trades taken in input order
getEquityCurve_sorted_unsorted(ts) ==
  SelectSeq(ts, LAMBDA t : t.exit_date # NullNum /\ Truthy(t.status))

\* lines 115-117: [...trades].filter(...).sort(...)
getEquityCurve_sorted(ts) ==
  LET kept == SelectSeq(ts, LAMBDA t : t.exit_date # NullNum /\ Truthy(t.status))
  IN  StableSortByKey(kept, [i \in 1..Len(kept) |-> GetTime(kept[i].exit_date)])

\* mutant: trades.sort(...) reorders the caller's array
getEquityCurve_tradesAfter_inplace(ts) ==
  StableSortByKey(ts, [i \in 1..Len(ts) |-> GetTime(ts[i].exit_date)])

\* line 115: the sort acts on the copy [...trades]; the caller's array is as before
getEquityCurve_tradesAfter(ts) == ts

\* lines 114-130
getEquityCurve(ts) ==
  LET sortedTrades == getEquityCurve_sorted(ts)
  IN  [ k \in 1..Len(sortedTrades) |->
          [ date   |-> ToLocaleDateString(sortedTrades[k].exit_date),
            equity |-> SumSeq(MapSeq(getEquityCurve_pl, SubSeq(sortedTrades, 1, k))) ] ]

(* ---------------------------------------------------------------------- *)
(* getTradesByAssetClass                                                   *)
(* ---------------------------------------------------------------------- *)
\* lines 139-141
getTradesByAssetClass_pl(t) ==
  IF t.reward_amount # NullNum
  THEN (IF t.status = "loss" THEN NumNeg(NumAbs(t.reward_amount)) ELSE t.reward_amount)
  ELSE NumOr(t.profit_loss, Zero)

\* line 147: name.charAt(0).toUpperCase() + name.slice(1), on the asset classes
CapitalizeAssetClass(name) ==
  CASE name = "forex" -> "Forex"
    [] name = "crypto" -> "Crypto"
    [] name = "commodities" -> "Commodities"
    [] name = "stocks" -> "Stocks"
    [] OTHER -> name

\* lines 132-151
getTradesByAssetClass(ts) ==
  LET keys == DistinctInOrder([i \in 1..Len(ts) |-> ts[i].asset_class])
      Members(key) == SelectSeq(ts, LAMBDA t : t.asset_class = key)
  IN  [ i \in 1..Len(keys) |->
          [ name   |-> CapitalizeAssetClass(keys[i]),
            value  |-> Len(Members(keys[i])),
            profit |-> SumSeq(MapSeq(getTradesByAssetClass_pl, Members(keys[i]))) ] ]

(* ---------------------------------------------------------------------- *)
(* getMonthlyPerformance                                                   *)
(* ---------------------------------------------------------------------- *)
\* lines 163-165
getMonthlyPerformance_pl(t) ==
  IF t.reward_amount # NullNum
  THEN (IF t.status = "loss" THEN NumNeg(NumAbs(t.reward_amount)) ELSE t.reward_amount)
  ELSE NumOr(t.profit_loss, Zero)

\* lines 157-158: `${getFullYear()}-${getMonth() + 1 padded}`, as <<year, month>>
MonthKey(date) == <<date[1], date[2]>>

\* the month keys in the order of their first trade, as Object.entries lists them
getMonthlyPerformance_sorted_insertion(keys) == keys

\* lines 172-173: .sort(([a], [b]) => a.localeCompare(b)); the keys are
\* 'YYYY-MM' with a zero-padded month, so the order is by year, then month
getMonthlyPerformance_sorted(keys) ==
  StableSortByKey(keys, [i \in 1..Len(keys) |-> Num(keys[i][1] * 12 + keys[i][2])])

\* lines 153-180; month is the bucket's 'YYYY-MM' key as <<year, month>>
getMonthlyPerformance(ts) ==
  LET completedTrades == SelectSeq(ts, LAMBDA t : t.exit_date # NullNum /\ Truthy(t.status))
      keys == DistinctInOrder([i \in 1..Len(completedTrades) |->
                                 MonthKey(completedTrades[i].exit_date)])
      sorted == getMonthlyPerformance_sorted(keys)
      Members(key) == SelectSeq(completedTrades, LAMBDA t : MonthKey(t.exit_date) = key)
  IN  [ i \in 1..Len(sorted) |->
          LET members == Members(sorted[i])
              wins == Len(SelectSeq(members, LAMBDA t : t.status = "win"))
          IN  [ month   |-> sorted[i],
                profit  |-> SumSeq(MapSeq(getMonthlyPerformance_pl, members)),
                trades  |-> Len(members),
                winRate |-> IF Len(members) > 0
                            THEN NumMul(NumDiv(Num(wins), Num(Len(members))), Num(100))
                            ELSE Zero ] ]

(* ---------------------------------------------------------------------- *)
(* getWinLossDistribution                                                  *)
(* ---------------------------------------------------------------------- *)
\* lines 182-189
getWinLossDistribution(ts) ==
  LET stats == calculateStats(ts)
  IN  SelectSeq(<< [name |-> "Wins", value |-> stats.winningTrades],
                   [name |-> "Losses", value |-> stats.losingTrades],
                   [name |-> "Breakeven", value |-> stats.breakevenTrades] >>,
                LAMBDA d : d.value > 0)

(* ---------------------------------------------------------------------- *)
(* getStrategyPerformance                                                  *)
(* ---------------------------------------------------------------------- *)
\* lines 201-203
getStrategyPerformance_pl(t) ==
  IF t.reward_amount # NullNum
  THEN (IF t.status = "loss" THEN NumNeg(NumAbs(t.reward_amount)) ELSE t.reward_amount)
  ELSE NumOr(t.profit_loss, Zero)

\* line 193: trade.strategy || 'No Strategy'
getStrategyPerformance_key(t) == IF Truthy(t.strategy) THEN t.strategy ELSE "No Strategy"

\* mutant: the sum of the logged ratios over all the trades of the bucket
getStrategyPerformance_averageRR_overTrades(totalRR, rrCount, nTrades) ==
  IF nTrades > 0 THEN NumDiv(totalRR, Num(nTrades)) ELSE Zero

\* line 221: data.rrCount > 0 ? data.totalRR / data.rrCount : 0
getStrategyPerformance_averageRR(totalRR, rrCount, nTrades) ==
  IF rrCount > 0 THEN NumDiv(totalRR, Num(rrCount)) ELSE Zero

\* lines 191-224
getStrategyPerformance(ts) ==
  LET keys == DistinctInOrder([i \in 1..Len(ts) |-> getStrategyPerformance_key(ts[i])])
      Members(key) == SelectSeq(ts, LAMBDA t : getStrategyPerformance_key(t) = key)
      Entry(key) ==
        LET members == Members(key)
            wins == Len(SelectSeq(members, LAMBDA t : t.status = "win"))
            withRR == SelectSeq(members, LAMBDA t : t.risk_reward_ratio # NullNum)
        IN  [ strategy  |-> key,
              trades    |-> Len(members),
              wins      |-> wins,
              losses    |-> Len(SelectSeq(members, LAMBDA t : t.status = "loss")),
              winRate   |-> IF Len(members) > 0
                            THEN NumMul(NumDiv(Num(wins), Num(Len(members))), Num(100))
                            ELSE Zero,
              totalPL   |-> SumSeq(MapSeq(getStrategyPerformance_pl, members)),
              averageRR |-> getStrategyPerformance_averageRR(
                              SumSeq(MapSeq(LAMBDA t : t.risk_reward_ratio, withRR)),
                              Len(withRR), Len(members)) ]
      entries == [i \in 1..Len(keys) |-> Entry(keys[i])]
  IN  StableSortByKey(entries, [i \in 1..Len(entries) |-> NumNeg(entries[i].totalPL)])

(* ---------------------------------------------------------------------- *)
(* getExitReasonStats                                                      *)
(* ---------------------------------------------------------------------- *)
\* lines 235-237
getExitReasonStats_pl(t) ==
  IF t.reward_amount # NullNum
  THEN (IF t.status = "loss" THEN NumNeg(NumAbs(t.reward_amount)) ELSE t.reward_amount)
  ELSE NumOr(t.profit_loss, Zero)

\* lines 243-252: reasonLabels[reason] || reason
ReasonLabel(reason) ==
  CASE reason = "tp_hit" -> "Take Profit Hit"
    [] reason = "sl_hit" -> "Stop Loss Hit"
    [] reason = "manual_close" -> "Manual Close"
    [] reason = "breakeven" -> "Breakeven Exit"
    [] OTHER -> reason

\* mutant: the share taken of all the trades of the input
getExitReasonStats_total_all(ts, completedTrades) == Len(ts)

\* line 242: const total = completedTrades.length
getExitReasonStats_total(ts, completedTrades) == Len(completedTrades)

\* lines 226-258
getExitReasonStats(ts) ==
  LET completedTrades == SelectSeq(ts, LAMBDA t : Truthy(t.exit_reason))
      keys == DistinctInOrder([i \in 1..Len(completedTrades) |-> completedTrades[i].exit_reason])
      total == getExitReasonStats_total(ts, completedTrades)
      Entry(key) ==
        LET members == SelectSeq(completedTrades, LAMBDA t : t.exit_reason = key)
        IN  [ reason     |-> ReasonLabel(key),
              count      |-> Len(members),
              percentage |-> IF total > 0
                             THEN NumMul(NumDiv(Num(Len(members)), Num(total)), Num(100))
                             ELSE Zero,
              totalPL    |-> SumSeq(MapSeq(getExitReasonStats_pl, members)) ]
      entries == [i \in 1..Len(keys) |-> Entry(keys[i])]
  IN  StableSortByKey(entries, [i \in 1..Len(entries) |-> Num(-entries[i].count)])

(* ---------------------------------------------------------------------- *)
(* getDayOfWeekPerformance                                                 *)
(* ---------------------------------------------------------------------- *)
\* lines 269-271
getDayOfWeekPerformance_pl(t) ==
  IF t.reward_amount # NullNum
  THEN (IF t.status = "loss" THEN NumNeg(NumAbs(t.reward_amount)) ELSE t.reward_amount)
  ELSE NumOr(t.profit_loss, Zero)

\* lines 261, 277: days[index].slice(0, 3)
DayLabels == <<"Sun", "Mon", "Tue", "Wed", "Thu", "Fri", "Sat">>

\* lines 260-282; grouped[index] is undefined for a day without trades, and
\* grouped[index]?.trades is then undefined: `|| 0` and `> 0` both give 0
getDayOfWeekPerformance(ts) ==
  [ d \in 1..Len(DayLabels) |->
      LET members == SelectSeq(ts, LAMBDA t : GetDay(t.entry_date) = d - 1)
          wins == Len(SelectSeq(members, LAMBDA t : t.status = "win"))
      IN  [ day     |-> DayLabels[d],
            trades  |-> Len(members),
            winRate |-> IF Len(members) > 0
                        THEN NumMul(NumDiv(Num(wins), Num(Len(members))), Num(100))
                        ELSE Zero,
            profit  |-> NumOr(SumSeq(MapSeq(getDayOfWeekPerformance_pl, members)), Zero) ] ]

(* ---------------------------------------------------------------------- *)
(* getPairPerformance                                                      *)
(* ---------------------------------------------------------------------- *)
\* lines 304-306
getPairPerformance_pl(t) ==
  IF t.reward_amount # NullNum
  THEN (IF t.status = "loss" THEN NumNeg(NumAbs(t.reward_amount)) ELSE t.reward_amount)
  ELSE NumOr(t.profit_loss, Zero)

\* mutant: the buckets in the order of their first trade
getPairPerformance_sorted_insertion(entries) == entries

\* line 321: .sort((a, b) => b.trades - a.trades)
getPairPerformance_sorted(entries) ==
  StableSortByKey(entries, [i \in 1..Len(entries) |-> Num(-entries[i].trades)])

\* lines 294-322
getPairPerformance(ts) ==
  LET keys == DistinctInOrder([i \in 1..Len(ts) |-> ts[i].symbol])
      Entry(key) ==
        LET members == SelectSeq(ts, LAMBDA t : t.symbol = key)
            wins == Len(SelectSeq(members, LAMBDA t : t.status = "win"))
        IN  [ symbol    |-> key,
              trades    |-> Len(members),
              wins      |-> wins,
              losses    |-> Len(SelectSeq(members, LAMBDA t : t.status = "loss")),
              breakeven |-> Len(SelectSeq(members, LAMBDA t : t.status = "breakeven")),
              winRate   |-> IF Len(members) > 0
                            THEN NumMul(NumDiv(Num(wins), Num(Len(members))), Num(100))
                            ELSE Zero,
              totalPL   |-> SumSeq(MapSeq(getPairPerformance_pl, members)) ]
      entries == [i \in 1..Len(keys) |-> Entry(keys[i])]
  IN  getPairPerformance_sorted(entries)

(* ---------------------------------------------------------------------- *)
(* getRulePerformance                                                      *)
(* ---------------------------------------------------------------------- *)
\* lines 350-352
getRulePerformance_pl(t) ==
  IF t.reward_amount # NullNum
  THEN (IF t.status = "loss" THEN NumNeg(NumAbs(t.reward_amount)) ELSE t.reward_amount)
  ELSE NumOr(t.profit_loss, Zero)

\* lines 335-342
getRulePerformance_rules ==
  << [key |-> "rule_in_plan", label |-> "In Plan"],
     [key |-> "rule_bos", label |-> "BOS"],
     [key |-> "rule_liquidity", label |-> "Liquidity"],
     [key |-> "rule_trend", label |-> "Trend"],
     [key |-> "rule_news", label |-> "News Check"],
     [key |-> "rule_rr", label |-> "1:2 R:R"] >>

\* line 346: (t as any)[rule.key]
RuleField(t, key) ==
  CASE key = "rule_in_plan" -> t.rule_in_plan
    [] key = "rule_bos" -> t.rule_bos
    [] key = "rule_liquidity" -> t.rule_liquidity
    [] key = "rule_trend" -> t.rule_trend
    [] key = "rule_news" -> t.rule_news
    [] key = "rule_rr" -> t.rule_rr
    [] key = "rule_emotions" -> t.rule_emotions
    [] key = "rule_lot_size" -> t.rule_lot_size

\* lines 332-364
getRulePerformance(ts) ==
  LET completedTrades == SelectSeq(ts, LAMBDA t : Truthy(t.status))
      Entry(rule) ==
        LET tradesWithRule == SelectSeq(completedTrades, LAMBDA t : RuleField(t, rule.key) = "yes")
            wins == Len(SelectSeq(tradesWithRule, LAMBDA t : t.status = "win"))
        IN  [ rule    |-> rule.label,
              trades  |-> Len(tradesWithRule),
              wins    |-> wins,
              winRate |-> IF Len(tradesWithRule) > 0
                          THEN NumMul(NumDiv(Num(wins), Num(Len(tradesWithRule))), Num(100))
                          ELSE Zero,
              totalPL |-> SumSeq(MapSeq(getRulePerformance_pl, tradesWithRule)) ]
  IN  SelectSeq([i \in 1..Len(getRulePerformance_rules) |-> Entry(getRulePerformance_rules[i])],
                LAMBDA stat : stat.trades > 0)

(* ---------------------------------------------------------------------- *)
(* Strings of the emotion field: sequences of one-character strings        *)
(* ---------------------------------------------------------------------- *)
LowerLetters == << "a", "b", "c", "d", "e", "f", "g", "h", "i", "j", "k", "l", "m",
                   "n", "o", "p", "q", "r", "s", "t", "u", "v", "w", "x", "y", "z" >>
UpperLetters == << "A", "B", "C", "D", "E", "F", "G", "H", "I", "J", "K", "L", "M",
                   "N", "O", "P", "Q", "R", "S", "T", "U", "V", "W", "X", "Y", "Z" >>
Digits == {"0", "1", "2", "3", "4", "5", "6", "7", "8", "9"}

UpperChar(c) ==
  IF \E i \in 1..Len(LowerLetters) : LowerLetters[i] = c
  THEN UpperLetters[CHOOSE i \in 1..Len(LowerLetters) : LowerLetters[i] = c]
  ELSE c

LowerChar(c) ==
  IF \E i \in 1..Len(UpperLetters) : UpperLetters[i] = c
  THEN LowerLetters[CHOOSE i \in 1..Len(UpperLetters) : UpperLetters[i] = c]
  ELSE c

ToUpperCase(s) == [i \in 1..Len(s) |-> UpperChar(s[i])]
ToLowerCase(s) == [i \in 1..Len(s) |-> LowerChar(s[i])]

RECURSIVE TrimStart(_)
TrimStart(s) == IF s # <<>> /\ s[1] = " " THEN TrimStart(Tail(s)) ELSE s

RECURSIVE TrimEnd(_)
TrimEnd(s) == IF s # <<>> /\ s[Len(s)] = " " THEN TrimEnd(SubSeq(s, 1, Len(s) - 1)) ELSE s

\* String.prototype.trim
Trim(s) == TrimEnd(TrimStart(s))

StartsWith(s, c) == s # <<>> /\ s[1] = c
EndsWith(s, c) == s # <<>> /\ s[Len(s)] = c
Includes(s, c) == \E i \in 1..Len(s) : s[i] = c

\* s.split(','): the empty string splits into one empty string
RECURSIVE SplitComma(_)
SplitComma(s) ==
  IF s = <<>> THEN << <<>> >>
  ELSE LET front == SplitComma(SubSeq(s, 1, Len(s) - 1))
           c == s[Len(s)]
       IN  IF c = "," THEN Append(front, <<>>)
           ELSE [front EXCEPT ![Len(front)] = Append(@, c)]

\* s.replace(/"/g, '')
RemoveQuotes(s) == SelectSeq(s, LAMBDA c : c # "\"")

\* a JSON literal other than a string: true, false, null or an integer
IsJSONLiteral(tok) ==
  \/ tok \in { <<"t", "r", "u", "e">>, <<"f", "a", "l", "s", "e">>, <<"n", "u", "l", "l">> }
  \/ LET digits == IF StartsWith(tok, "-") THEN Tail(tok) ELSE tok
     IN  /\ digits # <<>>
         /\ \A i \in 1..Len(digits) : digits[i] \in Digits
         /\ Len(digits) > 1 => digits[1] # "0"

\* one character of the text between the brackets of a JSON array
JSONNext(st, c) ==
  CASE st.mode = "value" ->
         IF c = " " THEN st
         ELSE IF c = "\"" THEN [st EXCEPT !.mode = "string", !.cur = <<>>]
         ELSE IF c \in Digits \/ c = "-" \/ Includes(LowerLetters, c)
              THEN [st EXCEPT !.mode = "literal", !.cur = <<c>>]
         ELSE [st EXCEPT !.ok = FALSE]
    [] st.mode = "string" ->
         IF c = "\"" THEN [st EXCEPT !.mode = "after", !.out = Append(@, st.cur)]
         ELSE IF c = "\\" THEN [st EXCEPT !.ok = FALSE]
         ELSE [st EXCEPT !.cur = Append(@, c)]
    [] st.mode = "literal" ->
         IF c = " " \/ c = ","
         THEN [st EXCEPT !.ok = IsJSONLiteral(st.cur),
                         !.out = Append(@, st.cur),
                         !.mode = IF c = "," THEN "value" ELSE "after",
                         !.commas = IF c = "," THEN @ + 1 ELSE @]
         ELSE IF c \in Digits \/ Includes(LowerLetters, c) THEN [st EXCEPT !.cur = Append(@, c)]
         ELSE [st EXCEPT !.ok = FALSE]
    [] st.mode = "after" ->
         IF c = " " THEN st
         ELSE IF c = "," THEN [st EXCEPT !.mode = "value", !.commas = @ + 1]
         ELSE [st EXCEPT !.ok = FALSE]

RECURSIVE JSONScan(_, _, _)
JSONScan(s, i, st) ==
  IF ~st.ok \/ i > Len(s) THEN st ELSE JSONScan(s, i + 1, JSONNext(st, s[i]))

\* JSON.parse of a text that starts with '[' and ends with ']', for arrays of
\* strings without escapes and of literals; each element comes as String(e)
\* renders it (a string as itself, a literal as its text).  ok = FALSE is a
\* SyntaxError.  Nested arrays, objects and escapes are outside the inputs.
JSONParse(str) ==
  LET st == JSONScan(SubSeq(str, 2, Len(str) - 1), 1,
                     [mode |-> "value", cur |-> <<>>, out |-> <<>>, ok |-> TRUE, commas |-> 0])
  IN  IF Len(str) < 2 \/ ~st.ok THEN [ok |-> FALSE, val |-> <<>>]
      ELSE CASE st.mode = "after" -> [ok |-> TRUE, val |-> st.out]
             [] st.mode = "literal" ->
                  [ok |-> IsJSONLiteral(st.cur), val |-> Append(st.out, st.cur)]
             [] st.mode = "value" -> [ok |-> st.commas = 0, val |-> <<>>]
             [] st.mode = "string" -> [ok |-> FALSE, val |-> <<>>]

RECURSIVE Flatten(_)
Flatten(ss) == IF ss = <<>> THEN <<>> ELSE Flatten(SubSeq(ss, 1, Len(ss) - 1)) \o ss[Len(ss)]

(* ---------------------------------------------------------------------- *)
(* getEmotionPerformance                                                   *)
(* ---------------------------------------------------------------------- *)
\* lines 436-438
getEmotionPerformance_pl(t) ==
  IF t.reward_amount # NullNum
  THEN (IF t.status = "loss" THEN NumNeg(NumAbs(t.reward_amount)) ELSE t.reward_amount)
  ELSE NumOr(t.profit_loss, Zero)

\* mutant: JSON.parse without the try/catch
getEmotionPerformance_parse_uncaught(str) ==
  LET parsed == JSONParse(str)
  IN  [threw |-> ~parsed.ok, raw |-> parsed.val]

\* line 391: try { rawEmotions = JSON.parse(str); } catch (e) { rawEmotions = [str]; }
getEmotionPerformance_parse(str) ==
  LET parsed == JSONParse(str)
  IN  IF parsed.ok THEN [threw |-> FALSE, raw |-> parsed.val]
      ELSE [threw |-> FALSE, raw |-> <<str>>]

\* mutant: rawEmotions = stored, the trade's own array
getEmotionPerformance_copies_alias(stored) == FALSE

\* line 387: rawEmotions = [...stored] is a new array
getEmotionPerformance_copies(stored) == TRUE

\* mutant: a brace string taken as one token
getEmotionPerformance_brace_token(str) == <<str>>

\* line 394: the Postgres text[] form {FOMO,Revenge}
getEmotionPerformance_brace(str) ==
  MapSeq(LAMBDA x : Trim(RemoveQuotes(x)), SplitComma(SubSeq(str, 2, Len(str) - 1)))

\* lines 381-400: rawEmotions before the rule_emotions tag is pushed
getEmotionPerformance_extract(stored) ==
  IF stored.kind = "array" THEN [threw |-> FALSE, raw |-> stored.val]
  ELSE IF stored.kind = "string" THEN
    LET str == Trim(stored.val)
    IN  IF StartsWith(str, "[") /\ EndsWith(str, "]") THEN getEmotionPerformance_parse(str)
        ELSE IF StartsWith(str, "{") /\ EndsWith(str, "}")
        THEN [threw |-> FALSE, raw |-> getEmotionPerformance_brace(str)]
        ELSE IF Includes(str, ",") THEN [threw |-> FALSE, raw |-> MapSeq(Trim, SplitComma(str))]
        ELSE IF str # <<>> THEN [threw |-> FALSE, raw |-> <<str>>]
        ELSE [threw |-> FALSE, raw |-> <<>>]
  ELSE [threw |-> FALSE, raw |-> <<>>]

\* lines 402-407: rawEmotions after the push
getEmotionPerformance_pushed(t) ==
  LET raw == getEmotionPerformance_extract(t.emotions_array).raw
  IN  IF t.rule_emotions = "yes" THEN Append(raw, <<"C", "a", "l", "m">>)
      ELSE IF t.rule_emotions = "no" THEN Append(raw, <<"A", "n", "x", "i", "o", "u", "s">>)
      ELSE raw

\* lines 415-420
getEmotionPerformance_case(e) ==
  IF ToUpperCase(e) = <<"F", "O", "M", "O">> THEN <<"F", "O", "M", "O">>
  ELSE <<UpperChar(e[1])>> \o ToLowerCase(Tail(e))

\* mutant: the normalized tags as they come, repetitions included
getEmotionPerformance_dedup_none(es) == es

\* line 411: Array.from(new Set(...))
getEmotionPerformance_dedup(es) == DistinctInOrder(es)

\* lines 411-421
getEmotionPerformance_normalized(t) ==
  getEmotionPerformance_dedup(
    MapSeq(getEmotionPerformance_case,
           SelectSeq(MapSeq(Trim, getEmotionPerformance_pushed(t)), LAMBDA e : Len(e) > 1)))

\* the trade object after the reducer step: the push reaches the trade's own
\* emotions_array only if rawEmotions is that array
getEmotionPerformance_tradeAfter(t) ==
  IF t.emotions_array.kind = "array" /\ ~getEmotionPerformance_copies(t.emotions_array)
  THEN [t EXCEPT !.emotions_array = EmoArray(getEmotionPerformance_pushed(t))]
  ELSE t

\* the caller's list after the call: the reducer visits the trades with a status
getEmotionPerformance_tradesAfter(ts) ==
  [i \in 1..Len(ts) |->
     IF Truthy(ts[i].status) THEN getEmotionPerformance_tradeAfter(ts[i]) ELSE ts[i]]

\* whether the call raises: an exception of the reducer is not caught
getEmotionPerformance_throws(ts) ==
  \E i \in 1..Len(ts) :
    Truthy(ts[i].status) /\ getEmotionPerformance_extract(ts[i].emotions_array).threw

\* mutant: the average loss weighed by the win rate
getEmotionPerformance_expectancy_winWeighted(winRate, avgWin, avgLoss) ==
  NumSub(NumMul(winRate, avgWin), NumMul(winRate, avgLoss))

\* line 459: (winRate * avgWin) - ((1 - winRate) * avgLoss)
getEmotionPerformance_expectancy(winRate, avgWin, avgLoss) ==
  NumSub(NumMul(winRate, avgWin), NumMul(NumSub(Num(1), winRate), avgLoss))

\* lines 423-449 and 454-470: the bucket of one emotion, from the trades that
\* carry it
getEmotionPerformance_entry(emotion, members) ==
  LET winners == SelectSeq(members, LAMBDA t : t.status = "win")
      losers == SelectSeq(members, LAMBDA t : t.status = "loss")
  IN  LET count == Len(members)
          nWins == Len(winners)
          nLosses == Len(losers)
          totalPL == SumSeq(MapSeq(getEmotionPerformance_pl, members))
          winAmount == SumSeq(MapSeq(LAMBDA t : NumAbs(getEmotionPerformance_pl(t)), winners))
          lossAmount == SumSeq(MapSeq(LAMBDA t : NumAbs(getEmotionPerformance_pl(t)), losers))
      IN  LET winRate == IF count > 0 THEN NumDiv(Num(nWins), Num(count)) ELSE Zero
              avgWin == IF nWins > 0 THEN NumDiv(winAmount, Num(nWins)) ELSE Zero
              avgLoss == IF nLosses > 0 THEN NumDiv(lossAmount, Num(nLosses)) ELSE Zero
          IN  [ emotion    |-> emotion,
                count      |-> count,
                totalPL    |-> totalPL,
                avgPL      |-> IF count > 0 THEN NumDiv(totalPL, Num(count)) ELSE Zero,
                wins       |-> nWins,
                losses     |-> nLosses,
                winRate    |-> NumMul(winRate, Num(100)),
                expectancy |-> getEmotionPerformance_expectancy(winRate, avgWin, avgLoss) ]

\* lines 380-473 given tags[i], the normalized emotions of completedTrades[i]
getEmotionPerformance_grouped(completedTrades, tags) ==
  LET keys == DistinctInOrder(Flatten(tags))
      MembersOf(emotion) ==
        Flatten([i \in 1..Len(completedTrades) |->
                   [j \in 1..Len(SelectSeq(tags[i], LAMBDA e : e = emotion)) |->
                      completedTrades[i]]])
      entries == SelectSeq([i \in 1..Len(keys) |->
                              getEmotionPerformance_entry(keys[i], MembersOf(keys[i]))],
                           LAMBDA e : e.count > 0)
  IN  StableSortByKey(entries, MapSeq(LAMBDA e : NumNeg(e.expectancy), entries))

\* lines 377-473
getEmotionPerformance(ts) ==
  LET completedTrades == SelectSeq(ts, LAMBDA t : Truthy(t.status))
  IN  getEmotionPerformance_grouped(completedTrades,
                                    MapSeq(getEmotionPerformance_normalized, completedTrades))

(* ---------------------------------------------------------------------- *)
(* getSetupQualityStats                                                    *)
(* ---------------------------------------------------------------------- *)
\* lines 493-495
getSetupQualityStats_pl(t) ==
  IF t.reward_amount # NullNum
  THEN (IF t.status = "loss" THEN NumNeg(NumAbs(t.reward_amount)) ELSE t.reward_amount)
  ELSE NumOr(t.profit_loss, Zero)

\* lines 529-530: order[quality] || 0
QualityRank(quality) ==
  CASE quality = "A+" -> 3
    [] quality = "A" -> 2
    [] quality = "B" -> 1
    [] quality = "C" -> 0
    [] OTHER -> 0

\* lines 484-532
getSetupQualityStats(ts) ==
  LET completedTrades == SelectSeq(ts, LAMBDA t : Truthy(t.status) /\ Truthy(t.setup_type))
      keys == DistinctInOrder([i \in 1..Len(completedTrades) |-> completedTrades[i].setup_type])
      Entry(quality) ==
        LET members == SelectSeq(completedTrades, LAMBDA t : t.setup_type = quality)
            winners == SelectSeq(members, LAMBDA t : t.status = "win")
            losers == SelectSeq(members, LAMBDA t : t.status = "loss")
            totalCount == Len(members)
            winRate == IF totalCount > 0 THEN NumDiv(Num(Len(winners)), Num(totalCount)) ELSE Zero
            lossRate == IF totalCount > 0 THEN NumDiv(Num(Len(losers)), Num(totalCount)) ELSE Zero
            totalWinAmount ==
              SumSeq(MapSeq(LAMBDA t : NumAbs(getSetupQualityStats_pl(t)), winners))
            totalLossAmount ==
              SumSeq(MapSeq(LAMBDA t : NumAbs(getSetupQualityStats_pl(t)), losers))
            avgWin == IF Len(winners) > 0 THEN NumDiv(totalWinAmount, Num(Len(winners))) ELSE Zero
            avgLoss == IF Len(losers) > 0 THEN NumDiv(totalLossAmount, Num(Len(losers))) ELSE Zero
        IN  [ quality    |-> quality,
              trades     |-> totalCount,
              wins       |-> Len(winners),
              winRate    |-> NumMul(winRate, Num(100)),
              totalPL    |-> SumSeq(MapSeq(getSetupQualityStats_pl, members)),
              expectancy |-> NumSub(NumMul(winRate, avgWin), NumMul(lossRate, avgLoss)) ]
      entries == [i \in 1..Len(keys) |-> Entry(keys[i])]
  IN  StableSortByKey(entries, [i \in 1..Len(entries) |-> Num(-QualityRank(entries[i].quality))])

(* ---------------------------------------------------------------------- *)
(* Trade records (types/trade.ts) and the input domains                    *)
(* ---------------------------------------------------------------------- *)
\* a trade with only the non-nullable fields set
BaseTrade ==
  [ symbol            |-> "EURUSD",
    asset_class       |-> "forex",
    entry_date        |-> <<2024, 1, 1>>,
    exit_date         |-> NullNum,
    status            |-> NullStr,
    profit_loss       |-> NullNum,
    reward_amount     |-> NullNum,
    risk_amount       |-> NullNum,
    risk_reward_ratio |-> NullNum,
    pips              |-> NullNum,
    strategy          |-> NullStr,
    exit_reason       |-> NullStr,
    setup_type        |-> NullStr,
    emotions_array    |-> EmoNull,
    rule_in_plan      |-> NullStr,
    rule_bos          |-> NullStr,
    rule_liquidity    |-> NullStr,
    rule_trend        |-> NullStr,
    rule_news         |-> NullStr,
    rule_rr           |-> NullStr,
    rule_emotions     |-> NullStr,
    rule_lot_size     |-> NullStr ]

\* status column: CHECK (status IN ('open','win','loss','breakeven')), nullable
StatusValues == {NullStr, "open", "win", "loss", "breakeven"}

RewardValues == {NullNum, Num(0), Num(100)}
ProfitLossValues == {NullNum, Num(-50), Num(30)}

\* trades that differ in the outcome fields read by calculateStats
StatsTrades ==
  { [BaseTrade EXCEPT !.status = st, !.reward_amount = r, !.profit_loss = p] :
      st \in StatusValues, r \in RewardValues, p \in ProfitLossValues }

\* the lists of at most n trades drawn from a set
ListsOf(S, n) == UNION { [1..k -> S] : k \in 0..n }

(* ---------------------------------------------------------------------- *)
(* State machine: the caller holds a list and calls an aggregator          *)
(* ---------------------------------------------------------------------- *)
\* what the last call did: the aggregator, whether it raised, what it returned
\* nothing of the backend takes part in a call of an aggregator
NoBackend == webhook_api_keys = {} /\ requests = <<>> /\ clock = 0

\* nor does the hook: nobody is signed in and the trades table is not read
NoHook == user = NullStr /\ trades_table = <<>> /\ pending = {} /\ channel = {}

NoResult == [fn |-> "none", threw |-> FALSE, value |-> <<>>]
Returned(fn, v) == [fn |-> fn, threw |-> FALSE, value |-> v]
Raised(fn) == [fn |-> fn, threw |-> TRUE, value |-> <<>>]


\* the end-to-end scenario of the documentation:
\* [win reward 100, loss reward 50, breakeven profit_loss 0]
EndToEndTrades ==
  << [BaseTrade EXCEPT !.status = "win", !.reward_amount = Num(100)],
     [BaseTrade EXCEPT !.status = "loss", !.reward_amount = Num(50)],
     [BaseTrade EXCEPT !.status = "breakeven", !.profit_loss = Num(0)] >>

InitStats ==
  /\ trades \in ListsOf(StatsTrades, MaxTrades) \cup {EndToEndTrades}
  /\ result = NoResult
  /\ NoBackend
  /\ NoHook

Call_calculateStats ==
  /\ result' = Returned("calculateStats", calculateStats(trades))
  /\ UNCHANGED trades
  /\ UNCHANGED backendVars
  /\ UNCHANGED hookVars

NextStats == Call_calculateStats

SpecStats == InitStats /\ [][NextStats]_vars

\* the risk columns of a trade: risk_amount and pips
RiskProfiles ==
  { [risk_amount |-> NullNum, pips |-> NullNum],
    [risk_amount |-> Num(50), pips |-> Num(-10)],
    [risk_amount |-> Num(20), pips |-> NullNum],
    [risk_amount |-> NullNum, pips |-> Num(20)] }

RiskRewardValues == {NullNum, Num(0), Num(3)}

\* a win of 100 and a loss of 50, and a trade without status
RiskOutcomes ==
  { [status |-> NullStr, reward_amount |-> NullNum],
    [status |-> "win", reward_amount |-> Num(100)],
    [status |-> "loss", reward_amount |-> Num(50)] }

\* trades that differ in the risk fields read by calculateStats
RiskTrades ==
  { [BaseTrade EXCEPT !.status = o.status, !.reward_amount = o.reward_amount,
                      !.risk_reward_ratio = rr,
                      !.risk_amount = p.risk_amount, !.pips = p.pips] :
      o \in RiskOutcomes, rr \in RiskRewardValues, p \in RiskProfiles }

InitRisk ==
  /\ trades \in ListsOf(RiskTrades, MaxTrades)
  /\ result = NoResult
  /\ NoBackend
  /\ NoHook

SpecRisk == InitRisk /\ [][NextStats]_vars

ExitDateValues == {NullNum, <<2024, 1, 1>>, <<2024, 1, 5>>}
CurveStatusValues == {NullStr, "win", "loss"}
CurveOutcomes ==
  { [reward_amount |-> NullNum, profit_loss |-> Num(100)],
    [reward_amount |-> NullNum, profit_loss |-> Num(-50)],
    [reward_amount |-> Num(30), profit_loss |-> NullNum] }

\* trades that differ in the fields read by getEquityCurve
CurveTrades ==
  { [BaseTrade EXCEPT !.exit_date = d, !.status = st,
                      !.reward_amount = o.reward_amount, !.profit_loss = o.profit_loss] :
      d \in ExitDateValues, st \in CurveStatusValues, o \in CurveOutcomes }

InitCurve ==
  /\ trades \in ListsOf(CurveTrades, MaxTrades)
  /\ result = NoResult
  /\ NoBackend
  /\ NoHook

Call_getEquityCurve ==
  /\ result' = Returned("getEquityCurve", getEquityCurve(trades))
  /\ trades' = getEquityCurve_tradesAfter(trades)
  /\ UNCHANGED backendVars
  /\ UNCHANGED hookVars

NextCurve == Call_getEquityCurve

SpecCurve == InitCurve /\ [][NextCurve]_vars

(* ---------------------------------------------------------------------- *)
(* All aggregators on one list                                             *)
(* ---------------------------------------------------------------------- *)
\* outcome fields of completed trades: both generations of the schema
Outcomes ==
  { [status |-> "win",  reward_amount |-> Num(100), profit_loss |-> Num(-50)],
    [status |-> "win",  reward_amount |-> NullNum,  profit_loss |-> Num(30)],
    [status |-> "loss", reward_amount |-> Num(100), profit_loss |-> NullNum],
    [status |-> "loss", reward_amount |-> NullNum,  profit_loss |-> Num(-50)] }

S_FOMO == <<"F", "O", "M", "O">>
S_revenge == <<"r", "e", "v", "e", "n", "g", "e">>
S_calm == <<"c", "a", "l", "m">>

\* two settings of the descriptive fields
Profiles ==
  { [BaseTrade EXCEPT
       !.symbol = "BTCUSD", !.asset_class = "crypto",
       !.entry_date = <<2024, 1, 2>>, !.exit_date = <<2024, 1, 5>>,
       !.risk_amount = Num(50), !.risk_reward_ratio = Num(2), !.pips = Num(20),
       !.strategy = "Breakout", !.exit_reason = "tp_hit", !.setup_type = "B",
       !.emotions_array = EmoArray(<<S_FOMO, S_revenge>>),
       !.rule_in_plan = "yes", !.rule_trend = "no", !.rule_rr = "n/a",
       !.rule_emotions = "yes", !.rule_lot_size = "yes"],
    [BaseTrade EXCEPT
       !.entry_date = <<2023, 12, 28>>, !.exit_date = <<2023, 12, 30>>,
       !.risk_reward_ratio = Num(1), !.pips = Num(-10),
       !.strategy = "Reversal", !.exit_reason = "sl_hit", !.setup_type = "A+",
       !.emotions_array = EmoArray(<<S_calm>>),
       !.rule_in_plan = "yes", !.rule_bos = "yes", !.rule_trend = "yes",
       !.rule_emotions = "no"] }

\* trades without descriptive fields: nothing set at all, a profit_loss and a
\* risk_reward_ratio without a status, and an open trade whose reward_amount
\* is 0
BareTrades ==
  { BaseTrade,
    [BaseTrade EXCEPT !.profit_loss = Num(30), !.risk_reward_ratio = Num(3)],
    [BaseTrade EXCEPT !.status = "open", !.reward_amount = Num(0), !.profit_loss = Num(30)] }

\* the shapes in which the emotions column arrives as a string: a JSON array,
\* brackets that are no JSON, a Postgres array, a comma list, a token, nothing
EmotionTrades ==
  { [BaseTrade EXCEPT !.status = "win", !.reward_amount = Num(100), !.setup_type = "A",
       !.emotions_array = EmoString(<<"[", "\"", "F", "O", "M", "O", "\"", ",", "\"",
                                      "R", "e", "v", "e", "n", "g", "e", "\"", "]">>)],
    [BaseTrade EXCEPT !.status = "loss", !.reward_amount = Num(100),
       !.emotions_array = EmoString(<<"[", "F", "O", "M", "O", "]">>)],
    [BaseTrade EXCEPT !.status = "breakeven", !.exit_date = <<2024, 1, 5>>, !.setup_type = "B",
       !.emotions_array = EmoString(<<"{", "F", "O", "M", "O", ",",
                                      "r", "e", "v", "e", "n", "g", "e", "}">>)],
    [BaseTrade EXCEPT !.status = "win", !.profit_loss = Num(30), !.exit_date = <<2024, 1, 1>>,
       !.setup_type = "C",
       !.emotions_array = EmoString(<<"F", "O", "M", "O", ",", " ",
                                      "R", "e", "v", "e", "n", "g", "e">>)],
    [BaseTrade EXCEPT !.status = "loss", !.profit_loss = Num(-50),
       !.emotions_array = EmoString(<<"c", "a", "l", "m">>)],
    [BaseTrade EXCEPT !.status = "win", !.reward_amount = Num(0), !.profit_loss = Num(30),
       !.emotions_array = EmoString(<<>>)] }

AllTrades ==
  { [p EXCEPT !.status = o.status, !.reward_amount = o.reward_amount,
              !.profit_loss = o.profit_loss] : p \in Profiles, o \in Outcomes }
  \cup BareTrades \cup EmotionTrades

\* a list whose second symbol has more trades than its first
PairOrderTrades ==
  << [BaseTrade EXCEPT !.status = "win", !.reward_amount = Num(100)],
     [BaseTrade EXCEPT !.symbol = "BTCUSD", !.asset_class = "crypto",
                       !.status = "loss", !.reward_amount = Num(50)],
     [BaseTrade EXCEPT !.symbol = "BTCUSD", !.asset_class = "crypto", !.status = "open"] >>

Init ==
  /\ trades \in ListsOf(AllTrades, MaxTrades) \cup {PairOrderTrades}
  /\ result = NoResult
  /\ NoBackend
  /\ NoHook

Call_getTradesByAssetClass ==
  /\ result' = Returned("getTradesByAssetClass", getTradesByAssetClass(trades))
  /\ UNCHANGED trades
  /\ UNCHANGED backendVars
  /\ UNCHANGED hookVars

Call_getMonthlyPerformance ==
  /\ result' = Returned("getMonthlyPerformance", getMonthlyPerformance(trades))
  /\ UNCHANGED trades
  /\ UNCHANGED backendVars
  /\ UNCHANGED hookVars

Call_getWinLossDistribution ==
  /\ result' = Returned("getWinLossDistribution", getWinLossDistribution(trades))
  /\ UNCHANGED trades
  /\ UNCHANGED backendVars
  /\ UNCHANGED hookVars

Call_getStrategyPerformance ==
  /\ result' = Returned("getStrategyPerformance", getStrategyPerformance(trades))
  /\ UNCHANGED trades
  /\ UNCHANGED backendVars
  /\ UNCHANGED hookVars

Call_getExitReasonStats ==
  /\ result' = Returned("getExitReasonStats", getExitReasonStats(trades))
  /\ UNCHANGED trades
  /\ UNCHANGED backendVars
  /\ UNCHANGED hookVars

Call_getDayOfWeekPerformance ==
  /\ result' = Returned("getDayOfWeekPerformance", getDayOfWeekPerformance(trades))
  /\ UNCHANGED trades
  /\ UNCHANGED backendVars
  /\ UNCHANGED hookVars

Call_getPairPerformance ==
  /\ result' = Returned("getPairPerformance", getPairPerformance(trades))
  /\ UNCHANGED trades
  /\ UNCHANGED backendVars
  /\ UNCHANGED hookVars

Call_getRulePerformance ==
  /\ result' = Returned("getRulePerformance", getRulePerformance(trades))
  /\ UNCHANGED trades
  /\ UNCHANGED backendVars
  /\ UNCHANGED hookVars

Call_getEmotionPerformance ==
  /\ result' = IF getEmotionPerformance_throws(trades)
               THEN Raised("getEmotionPerformance")
               ELSE Returned("getEmotionPerformance", getEmotionPerformance(trades))
  /\ trades' = getEmotionPerformance_tradesAfter(trades)
  /\ UNCHANGED backendVars
  /\ UNCHANGED hookVars

Call_getSetupQualityStats ==
  /\ result' = Returned("getSetupQualityStats", getSetupQualityStats(trades))
  /\ UNCHANGED trades
  /\ UNCHANGED backendVars
  /\ UNCHANGED hookVars

Next ==
  \/ Call_calculateStats
  \/ Call_getEquityCurve
  \/ Call_getTradesByAssetClass
  \/ Call_getMonthlyPerformance
  \/ Call_getWinLossDistribution
  \/ Call_getStrategyPerformance
  \/ Call_getExitReasonStats
  \/ Call_getDayOfWeekPerformance
  \/ Call_getPairPerformance
  \/ Call_getRulePerformance
  \/ Call_getEmotionPerformance
  \/ Call_getSetupQualityStats

Spec == Init /\ [][Next]_vars

(* ---------------------------------------------------------------------- *)
(* mt5-webhook: the backend function (supabase/functions/mt5-webhook) and  *)
(* the key management of useWebhookKeys.  In this part `trades` is the     *)
(* trades table, in insertion order.  Every await of the handler is a step *)
(* of its own, so that requests interleave where the runtime lets them.    *)
(* ---------------------------------------------------------------------- *)
MaxRequests == 2
MaxClock == 1

Users == {"u1", "u2"}
\* generateApiKey(): 32 random bytes in hex; two draws never coincide
RawKeys == {"key1", "key2"}
\* what a client may send as X-API-Key: a generated key, another string, nothing
ApiKeyHeaders == RawKeys \cup {"guess", NullStr}
Tickets == {"1001", "1002"}
Methods == {"POST", "GET", "OPTIONS"}

\* a timestamp column that is null
NullTime == -1

\* hashApiKey: SHA-256 in hex.  The model keeps what the lookup relies on: a
\* function of the key that differs for different keys and is not the key
hashApiKey(key) == "sha256:" \o key

\* the JSON body of a request; a field that is absent is NullStr
Body(ticket, symbol, open_price) ==
  [valid |-> TRUE, ticket |-> ticket, symbol |-> symbol, open_price |-> open_price]
\* a body that is no JSON: req.json() rejects
InvalidBody == [valid |-> FALSE, ticket |-> NullStr, symbol |-> NullStr, open_price |-> NullStr]
NullBody == Body(NullStr, NullStr, NullStr)
Bodies ==
  { Body(t, "EURUSD", "1.1000") : t \in Tickets }
  \cup { Body(NullStr, "EURUSD", "1.1000"), InvalidBody }

\* keyRecord when the lookup found no row
NullKeyRecord == [id |-> NullStr, user_id |-> NullStr, is_active |-> FALSE]

NoResponse == [status |-> 0, text |-> "", trade_id |-> 0]
Response(status, text) == [status |-> status, text |-> text, trade_id |-> 0]
ResponseWithTrade(status, text, id) == [status |-> status, text |-> text, trade_id |-> id]

\* a request that has not arrived.  The last four fields record what happened
\* to the request and no step reads them: usedOnArrival, that the request
\* arrived at the very time in last_used_at of its key; activeSinceArrival,
\* that its key was active on arrival or has been enabled since; touched and
\* inserted, that the request has written last_used_at, resp. a trade
IdleRequest ==
  [ pc |-> "idle", method |-> NullStr, apiKey |-> NullStr, body |-> NullBody,
    keyRecord |-> NullKeyRecord, response |-> NoResponse,
    usedOnArrival |-> FALSE,
    activeSinceArrival |-> FALSE, touched |-> FALSE, inserted |-> FALSE ]

\* .maybeSingle(): the row if exactly one matches, null if none, an error (and
\* null data) if several do
MaybeSingle(rows) ==
  IF Cardinality(rows) = 1 THEN [data |-> rows, error |-> FALSE]
  ELSE IF rows = {} THEN [data |-> {}, error |-> FALSE]
  ELSE [data |-> {}, error |-> TRUE]

KeysWithHash(hash) == { k \in webhook_api_keys : k.api_key_hash = hash }

\* the last_used_at of the key a header names, NullTime if there is none
LastUsedOf(apiKey) ==
  LET rows == KeysWithHash(hashApiKey(apiKey))
  IN  IF rows = {} THEN NullTime ELSE (CHOOSE k \in rows : TRUE).last_used_at

\* the rows createKey has stored (useWebhookKeys, lines 47-63): one key for
\* each user, active by default, never used
InitialKeys ==
  { [ id |-> "k1", user_id |-> "u1", api_key_hash |-> hashApiKey("key1"),
      is_active |-> TRUE, last_used_at |-> NullTime ],
    [ id |-> "k2", user_id |-> "u2", api_key_hash |-> hashApiKey("key2"),
      is_active |-> TRUE, last_used_at |-> NullTime ] }

InitWebhook ==
  /\ trades = <<>>
  /\ result = NoResult
  /\ webhook_api_keys = InitialKeys
  /\ requests = [r \in 1..MaxRequests |-> IdleRequest]
  /\ clock = 0
  /\ NoHook

\* lines 29-47: the request arrives; OPTIONS, a method other than POST and a
\* missing X-API-Key are answered at once.  Requests are numbered in the order
\* of their arrival
Serve_receive(r, method, apiKey) ==
  /\ requests[r].pc = "idle"
  /\ r > 1 => requests[r - 1].pc # "idle"
  /\ LET arrived == [requests[r] EXCEPT !.method = method]
     IN  requests' = [requests EXCEPT ![r] =
           IF method = "OPTIONS"
           THEN [arrived EXCEPT !.pc = "done", !.response = Response(200, "")]
           ELSE IF method # "POST"
           THEN [arrived EXCEPT !.pc = "done",
                                !.response = Response(405, "Method not allowed")]
           ELSE IF apiKey = NullStr
           THEN [arrived EXCEPT !.pc = "done",
                                !.response = Response(401, "Missing API key")]
           ELSE [arrived EXCEPT
                   !.pc = "lookup", !.apiKey = apiKey,
                   !.usedOnArrival = (LastUsedOf(apiKey) = clock),
                   !.activeSinceArrival =
                      \E k \in KeysWithHash(hashApiKey(apiKey)) : k.is_active]]
  /\ UNCHANGED <<trades, result, webhook_api_keys, clock>>
  /\ UNCHANGED hookVars

\* mutant: the key is not tested for is_active
Serve_keyAccepted_any(keyRecord) == TRUE

\* line 69: if (!keyRecord.is_active) -> 403
Serve_keyAccepted(keyRecord) == keyRecord.is_active

\* lines 55-74: hash the key, select the row of that hash, reject
Serve_lookupKey(r) ==
  /\ requests[r].pc = "lookup"
  /\ LET found == MaybeSingle(KeysWithHash(hashApiKey(requests[r].apiKey)))
     IN  requests' = [requests EXCEPT ![r] =
           IF found.error \/ found.data = {}
           THEN [@ EXCEPT !.pc = "done", !.response = Response(401, "Invalid API key")]
           ELSE LET row == CHOOSE k \in found.data : TRUE
                    keyRecord == [id |-> row.id, user_id |-> row.user_id,
                                  is_active |-> row.is_active]
                IN  IF ~Serve_keyAccepted(keyRecord)
                    THEN [@ EXCEPT !.pc = "done", !.keyRecord = keyRecord,
                                   !.response = Response(403, "API key is disabled")]
                    ELSE [@ EXCEPT !.pc = "touch", !.keyRecord = keyRecord]]
  /\ UNCHANGED <<trades, result, webhook_api_keys, clock>>
  /\ UNCHANGED hookVars

\* lines 77-102: set last_used_at of the key row (no row, no update), then
\* read the body: no JSON raises into the catch of line 160, a missing field
\* is answered 400
Serve_touchKey(r, body) ==
  /\ requests[r].pc = "touch"
  /\ webhook_api_keys' =
       { IF k.id = requests[r].keyRecord.id THEN [k EXCEPT !.last_used_at = clock] ELSE k :
           k \in webhook_api_keys }
  /\ requests' = [requests EXCEPT ![r] =
       LET touched == [@ EXCEPT !.touched = TRUE, !.body = body]
       IN  IF ~body.valid
           THEN [touched EXCEPT !.pc = "done",
                                !.response = Response(500, "Internal server error")]
           ELSE IF body.ticket = NullStr \/ body.symbol = NullStr \/ body.open_price = NullStr
           THEN [touched EXCEPT !.pc = "done",
                   !.response = Response(400, "Missing required fields: ticket, symbol, open_price")]
           ELSE [touched EXCEPT !.pc = "duplicate"]]
  /\ UNCHANGED <<trades, result, clock>>
  /\ UNCHANGED hookVars

\* migration, lines 49-52: the column has a plain index, no constraint: the
\* insert of a row whose ticket is stored already does not fail
Serve_insertError(table, user_id, mt5_ticket) == FALSE

\* lines 105-117: select the rows of this ticket and user; `existing` is data
\* of maybeSingle, the error is not looked at
Serve_checkDuplicate(r) ==
  /\ requests[r].pc = "duplicate"
  /\ LET matching == { i \in 1..Len(trades) :
                         /\ trades[i].mt5_ticket = requests[r].body.ticket
                         /\ trades[i].user_id = requests[r].keyRecord.user_id }
         existing == MaybeSingle(matching).data
     IN  requests' = [requests EXCEPT ![r] =
           IF existing # {}
           THEN [@ EXCEPT !.pc = "done",
                          !.response = ResponseWithTrade(200, "Trade already exists",
                                         trades[CHOOSE i \in existing : TRUE].id)]
           ELSE [@ EXCEPT !.pc = "insert"]]
  /\ UNCHANGED <<trades, result, webhook_api_keys, clock>>
  /\ UNCHANGED hookVars

\* lines 119-159: build tradeData and insert it.  Of tradeData the row keeps
\* the columns a step of the handler reads, and the constants; the others are
\* copies of body fields.  dbError is a failure of the database itself
Serve_insert(r, dbError) ==
  /\ requests[r].pc = "insert"
  /\ LET tradeData == [ id |-> Len(trades) + 1,
                        user_id |-> requests[r].keyRecord.user_id,
                        mt5_ticket |-> requests[r].body.ticket,
                        strategy |-> "MT5 Auto-Sync",
                        needs_review |-> TRUE ]
         insertError == dbError \/ Serve_insertError(trades, tradeData.user_id,
                                                      tradeData.mt5_ticket)
     IN  IF insertError
         THEN /\ requests' = [requests EXCEPT ![r] =
                   [@ EXCEPT !.pc = "done",
                             !.response = Response(500, "Failed to insert trade")]]
              /\ UNCHANGED trades
         ELSE /\ trades' = Append(trades, tradeData)
              /\ requests' = [requests EXCEPT ![r] =
                   [@ EXCEPT !.pc = "done", !.inserted = TRUE,
                             !.response = ResponseWithTrade(201, "success", tradeData.id)]]
  /\ UNCHANGED <<result, webhook_api_keys, clock>>
  /\ UNCHANGED hookVars

\* a request in flight whose key has this hash sees the key active from now on
NoteActive(hash) ==
  [r \in DOMAIN requests |->
     IF requests[r].pc \notin {"idle", "done"} /\ hashApiKey(requests[r].apiKey) = hash
     THEN [requests[r] EXCEPT !.activeSinceArrival = TRUE]
     ELSE requests[r]]

\* useWebhookKeys, lines 65-71
toggleKey(id, isActive) ==
  /\ \E k \in webhook_api_keys : k.id = id /\ k.is_active # isActive
  /\ webhook_api_keys' =
       { IF k.id = id THEN [k EXCEPT !.is_active = isActive] ELSE k : k \in webhook_api_keys }
  /\ requests' = IF isActive
                 THEN NoteActive((CHOOSE k \in webhook_api_keys : k.id = id).api_key_hash)
                 ELSE requests
  /\ UNCHANGED <<trades, result, clock>>
  /\ UNCHANGED hookVars

\* useWebhookKeys, lines 73-76
deleteKey(id) ==
  /\ \E k \in webhook_api_keys : k.id = id
  /\ webhook_api_keys' = { k \in webhook_api_keys : k.id # id }
  /\ UNCHANGED <<trades, result, requests, clock>>
  /\ UNCHANGED hookVars

\* time passes: new Date() gives a later instant
Tick ==
  /\ clock < MaxClock
  /\ clock' = clock + 1
  /\ UNCHANGED <<trades, result, webhook_api_keys, requests>>
  /\ UNCHANGED hookVars

\* the keys whose owner disables, enables or deletes them while requests run
ManagedKeys == {"k1"}

NextWebhook ==
  \/ \E r \in 1..MaxRequests, method \in Methods, apiKey \in ApiKeyHeaders :
       Serve_receive(r, method, apiKey)
  \/ \E r \in 1..MaxRequests : Serve_lookupKey(r)
  \/ \E r \in 1..MaxRequests, body \in Bodies : Serve_touchKey(r, body)
  \/ \E r \in 1..MaxRequests : Serve_checkDuplicate(r)
  \/ \E r \in 1..MaxRequests, dbError \in BOOLEAN : Serve_insert(r, dbError)
  \/ \E id \in ManagedKeys, isActive \in BOOLEAN : toggleKey(id, isActive)
  \/ \E id \in ManagedKeys : deleteKey(id)
  \/ Tick

SpecWebhook == InitWebhook /\ [][NextWebhook]_vars

(* ---------------------------------------------------------------------- *)
(* Quantities the claims are stated in, computed from the input list       *)
(* ---------------------------------------------------------------------- *)
\* effective_pl of the data model: reward_amount supersedes profit_loss
EffectivePl(t) ==
  IF t.reward_amount # NullNum
  THEN (IF t.status = "loss" THEN NumNeg(NumAbs(t.reward_amount)) ELSE t.reward_amount)
  ELSE (IF t.profit_loss = NullNum THEN Zero ELSE t.profit_loss)

CountWhere(ts, P(_)) == Cardinality({i \in 1..Len(ts) : P(ts[i])})

SumWhere(ts, P(_), f(_)) == SumSeq(MapSeq(f, SelectSeq(ts, P)))

HasStatus(t) == t.status # NullStr
IsWin(t) == t.status = "win"
IsLoss(t) == t.status = "loss"
IsBreakeven(t) == t.status = "breakeven"
AbsEffectivePl(t) == NumAbs(EffectivePl(t))

StatsCalled == result.fn = "calculateStats"

\* lists equal to ts except in profit_loss of trades whose reward_amount is set
ProfitLossVariants(ts) ==
  { v \in [1..Len(ts) -> StatsTrades] :
      \A i \in 1..Len(ts) :
        /\ \E p \in ProfitLossValues : v[i] = [ts[i] EXCEPT !.profit_loss = p]
        /\ ts[i].reward_amount = NullNum => v[i] = ts[i] }

(* ---------------------------------------------------------------------- *)
(* C1..C7: calculateStats                                                  *)
(* ---------------------------------------------------------------------- *)
\* C1: two lists that differ only in profit_loss of trades whose
\* reward_amount is non-null (0 included) get the same statistics in every field.
C1_RewardSupersedesProfitLoss ==
  StatsCalled => \A v \in ProfitLossVariants(trades) : calculateStats(v) = result.value

\* C3: winningTrades + losingTrades + breakevenTrades = totalTrades, the number
\* of trades with a non-null status ('open' included among the values); the
\* end-to-end scenario reports 1, 1, 1, totalProfitLoss 50 and profitFactor 2.
C3_PartitionOfCompleted ==
  StatsCalled =>
    /\ result.value.totalTrades = CountWhere(trades, HasStatus)
    /\ result.value.winningTrades + result.value.losingTrades
         + result.value.breakevenTrades = result.value.totalTrades
    /\ trades = EndToEndTrades =>
         /\ result.value.winningTrades = 1
         /\ result.value.losingTrades = 1
         /\ result.value.breakevenTrades = 1
         /\ result.value.totalProfitLoss = Num(50)
         /\ result.value.profitFactor = Num(2)

\* C4: winRate = count(win) / count(non-null status) * 100, within 0..100, and
\* exactly 0 when no trade has a non-null status.
C4_WinRate ==
  StatsCalled =>
    LET n == CountWhere(trades, HasStatus)
        w == CountWhere(trades, IsWin)
    IN  /\ n > 0 => result.value.winRate = Norm(w * 100, n)
        /\ n = 0 => result.value.winRate = Zero
        /\ NumGe(result.value.winRate, Zero)
        /\ NumGe(Num(100), result.value.winRate)

C4_Witness ==
  /\ StatsCalled
  /\ CountWhere(trades, IsWin) = 1
  /\ CountWhere(trades, HasStatus) = 2
  /\ \E i \in 1..Len(trades) : trades[i].status = "open"
  /\ result.value.winRate = Num(50)

C6_Averages ==
  StatsCalled =>
    LET w == CountWhere(trades, IsWin)
        l == CountWhere(trades, IsLoss)
    IN  /\ result.value.averageWin =
             (IF w = 0 THEN Zero ELSE NumDiv(SumWhere(trades, IsWin, AbsEffectivePl), Num(w)))
        /\ result.value.averageLoss =
             (IF l = 0 THEN Zero ELSE NumDiv(SumWhere(trades, IsLoss, AbsEffectivePl), Num(l)))
        /\ NumGe(result.value.averageWin, Zero)
        /\ NumGe(result.value.averageLoss, Zero)

\* C7: expectancy = (winRate/100 * averageWin) - (lossRate * averageLoss) with
\* lossRate = count(losses)/count(completed), 0 when nothing is completed; when
\* all completed trades are wins expectancy = averageWin, and with no completed
\* trade expectancy = 0.
C7_Expectancy ==
  StatsCalled =>
    LET n == CountWhere(trades, HasStatus)
        w == CountWhere(trades, IsWin)
        l == CountWhere(trades, IsLoss)
        lossRate == IF n = 0 THEN Zero ELSE Norm(l, n)
        r == result.value
    IN  /\ r.expectancy =
             NumSub(NumMul(NumDiv(r.winRate, Num(100)), r.averageWin),
                    NumMul(lossRate, r.averageLoss))
        /\ n > 0 /\ w = n => r.expectancy = r.averageWin
        /\ n = 0 => r.expectancy = Zero

\* a win, and a breakeven trade that is no loss: expectancy is half the win
C7_Witness ==
  /\ StatsCalled
  /\ result.value.winningTrades = 1
  /\ result.value.breakevenTrades = 1
  /\ result.value.averageWin = Num(100)
  /\ result.value.expectancy = Num(50)

(* ---------------------------------------------------------------------- *)
(* C8: getEquityCurve                                                      *)
(* ---------------------------------------------------------------------- *)
CurveCalled == result.fn = "getEquityCurve"

\* a date is before another: year, then month, then day
DateBefore(a, b) ==
  \/ a[1] < b[1]
  \/ a[1] = b[1] /\ a[2] < b[2]
  \/ a[1] = b[1] /\ a[2] = b[2] /\ a[3] < b[3]

\* the indices of the trades with an exit_date and a status, by exit_date and,
\* for equal dates, by position in the input
ChronologicalOrder(ts) ==
  LET kept == {i \in 1..Len(ts) : ts[i].exit_date # NullNum /\ ts[i].status # NullStr}
  IN  CHOOSE p \in [1..Cardinality(kept) -> kept] :
        \A a, b \in 1..Cardinality(kept) :
          a < b => \/ DateBefore(ts[p[a]].exit_date, ts[p[b]].exit_date)
                   \/ ts[p[a]].exit_date = ts[p[b]].exit_date /\ p[a] < p[b]

\* C8: one point per trade with non-null exit_date and status, by non-decreasing
\* exit_date whatever the input order, equal dates in input order; the k-th
\* equity is the sum of effective_pl of the first k trades in that order.
C8_EquityCurve ==
  CurveCalled =>
    LET p == ChronologicalOrder(trades)
    IN  /\ Len(result.value) = Len(p)
        /\ \A k \in 1..Len(p) :
             /\ result.value[k].date = ToLocaleDateString(trades[p[k]].exit_date)
             /\ result.value[k].equity =
                  SumSeq([j \in 1..k |-> EffectivePl(trades[p[j]])])

\* the later trade comes first in the input and second in the curve
C8_Witness ==
  /\ CurveCalled
  /\ Len(trades) = 2
  /\ Len(result.value) = 2
  /\ trades[1].exit_date = <<2024, 1, 5>>
  /\ trades[2].exit_date = <<2024, 1, 1>>
  /\ result.value[1].equity = Num(-50)
  /\ result.value[2].equity = Num(50)

(* ---------------------------------------------------------------------- *)
(* C2: one effective_pl in every aggregator                                *)
(* ---------------------------------------------------------------------- *)
Called(fn) == result.fn = fn /\ ~result.threw

Closed(t) == t.exit_date # NullNum /\ t.status # NullStr

\* the sum of effective_pl over the trades of the input that satisfy P
EffectivePlOf(P(_)) == SumWhere(trades, P, EffectivePl)

RuleKeyOfLabel(label) ==
  getRulePerformance_rules[CHOOSE i \in 1..Len(getRulePerformance_rules) :
                             getRulePerformance_rules[i].label = label].key

\* C2: calculateStats.totalProfitLoss is the sum of effective_pl over the trades
\* with a non-null status, and every other aggregator adds this same
\* effective_pl for each trade it counts.
C2_EffectivePlEverywhere ==
  /\ Called("calculateStats") =>
       result.value.totalProfitLoss = EffectivePlOf(HasStatus)
  /\ Called("getEquityCurve") =>
       /\ Len(result.value) = CountWhere(trades, Closed)
       /\ Len(result.value) > 0 =>
            result.value[Len(result.value)].equity = EffectivePlOf(Closed)
  /\ Called("getMonthlyPerformance") =>
       \A k \in 1..Len(result.value) :
         result.value[k].profit =
           EffectivePlOf(LAMBDA t : Closed(t) /\ <<t.exit_date[1], t.exit_date[2]>> = result.value[k].month)
  /\ Called("getDayOfWeekPerformance") =>
       \A d \in 1..Len(result.value) :
         result.value[d].profit = EffectivePlOf(LAMBDA t : GetDay(t.entry_date) = d - 1)
  /\ Called("getTradesByAssetClass") =>
       \A k \in 1..Len(result.value) :
         result.value[k].profit =
           EffectivePlOf(LAMBDA t : CapitalizeAssetClass(t.asset_class) = result.value[k].name)
  /\ Called("getPairPerformance") =>
       \A k \in 1..Len(result.value) :
         result.value[k].totalPL = EffectivePlOf(LAMBDA t : t.symbol = result.value[k].symbol)
  /\ Called("getStrategyPerformance") =>
       \A k \in 1..Len(result.value) :
         result.value[k].totalPL =
           EffectivePlOf(LAMBDA t : (IF t.strategy = NullStr THEN "No Strategy" ELSE t.strategy)
                                      = result.value[k].strategy)
  /\ Called("getExitReasonStats") =>
       \A k \in 1..Len(result.value) :
         result.value[k].totalPL =
           EffectivePlOf(LAMBDA t : t.exit_reason # NullStr
                                    /\ ReasonLabel(t.exit_reason) = result.value[k].reason)
  /\ Called("getRulePerformance") =>
       \A k \in 1..Len(result.value) :
         result.value[k].totalPL =
           EffectivePlOf(LAMBDA t : HasStatus(t)
                                    /\ RuleField(t, RuleKeyOfLabel(result.value[k].rule)) = "yes")
  /\ Called("getEmotionPerformance") =>
       \A k \in 1..Len(result.value) :
         result.value[k].totalPL =
           EffectivePlOf(LAMBDA t : HasStatus(t)
                                    /\ Contains(getEmotionPerformance_normalized(t),
                                                result.value[k].emotion))
  /\ Called("getSetupQualityStats") =>
       \A k \in 1..Len(result.value) :
         result.value[k].totalPL =
           EffectivePlOf(LAMBDA t : HasStatus(t) /\ t.setup_type = result.value[k].quality)

\* a curve over a win whose reward_amount 100 supersedes its profit_loss -50
\* and a loss logged by profit_loss alone
C2_Witness ==
  /\ Called("getEquityCurve")
  /\ Len(trades) = 2
  /\ trades[1].status = "win" /\ trades[1].reward_amount = Num(100)
  /\ trades[1].profit_loss = Num(-50)
  /\ trades[2].status = "loss" /\ trades[2].reward_amount = NullNum
  /\ trades[2].profit_loss = Num(-50)
  /\ Len(result.value) = 2
  /\ result.value[2].equity = Num(50)

ZeroStats ==
  [ totalTrades |-> 0, winningTrades |-> 0, losingTrades |-> 0, breakevenTrades |-> 0,
    winRate |-> Zero, totalProfitLoss |-> Zero, averageWin |-> Zero, averageLoss |-> Zero,
    largestWin |-> Zero, largestLoss |-> Zero, profitFactor |-> Zero, averageRR |-> Zero,
    expectancy |-> Zero, averageRiskAmount |-> Zero, totalRiskAmount |-> Zero,
    averagePips |-> Zero, totalPips |-> Zero ]

C11_NoDuplicateTickets ==
  /\ \A i, j \in 1..Len(trades) :
       (trades[i].user_id = trades[j].user_id /\ trades[i].mt5_ticket = trades[j].mt5_ticket)
         => i = j
  /\ \A r \in DOMAIN requests :
       requests[r].response.text = "Trade already exists" =>
         /\ ~requests[r].inserted
         /\ trades[requests[r].response.trade_id].mt5_ticket = requests[r].body.ticket
         /\ trades[requests[r].response.trade_id].user_id = requests[r].keyRecord.user_id

C13_RateLimited ==
  \A r \in DOMAIN requests : requests[r].inserted => ~requests[r].usedOnArrival

(* ---------------------------------------------------------------------- *)
(* C14: seven days, always                                                 *)
(* ---------------------------------------------------------------------- *)
\* day of the week of a civil date by Zeller's congruence, 0 = Sunday
Weekday(date) ==
  LET y == IF date[2] < 3 THEN date[1] - 1 ELSE date[1]
      mth == IF date[2] < 3 THEN date[2] + 12 ELSE date[2]
      K == y % 100
      J == y \div 100
      h == (date[3] + ((13 * (mth + 1)) \div 5) + K + (K \div 4) + (J \div 4) + 5 * J) % 7
  IN  (h + 6) % 7

\* C14: getDayOfWeekPerformance returns seven entries, Sun to Sat, for every
\* list; entry d counts the trades of any status entered on day d, with the
\* sum of their effective_pl and wins/trades*100, all three 0 for a day
\* without trades; the seven counts sum to the length of the list.
C14_SevenDays ==
  Called("getDayOfWeekPerformance") =>
    /\ Len(result.value) = 7
    /\ [d \in 1..7 |-> result.value[d].day] =
         <<"Sun", "Mon", "Tue", "Wed", "Thu", "Fri", "Sat">>
    /\ \A d \in 1..7 :
         LET OnDay(t) == Weekday(t.entry_date) = d - 1
             n == CountWhere(trades, OnDay)
             w == CountWhere(trades, LAMBDA t : OnDay(t) /\ t.status = "win")
         IN  /\ result.value[d].trades = n
             /\ result.value[d].profit = SumWhere(trades, OnDay, EffectivePl)
             /\ result.value[d].winRate =
                  IF n = 0 THEN Zero ELSE NumMul(NumDiv(Num(w), Num(n)), Num(100))
    /\ SumSeq([d \in 1..7 |-> Num(result.value[d].trades)]) = Num(Len(trades))

\* a trade without status entered on a Monday and a win entered on a
\* Thursday: Monday counts 1 with winRate 0, Thursday 1 with winRate 100,
\* Sunday is there with 0
C14_Witness ==
  /\ Called("getDayOfWeekPerformance")
  /\ Len(trades) = 2
  /\ \E i \in 1..2 : trades[i].status = NullStr /\ trades[i].entry_date = <<2024, 1, 1>>
  /\ \E i \in 1..2 : trades[i].status = "win" /\ trades[i].entry_date = <<2023, 12, 28>>
  /\ result.value[2].trades = 1 /\ result.value[2].winRate = Zero
  /\ result.value[5].trades = 1 /\ result.value[5].winRate = Num(100)
  /\ result.value[1].trades = 0 /\ result.value[1].profit = Zero

(* ---------------------------------------------------------------------- *)
(* C15: exit reasons                                                       *)
(* ---------------------------------------------------------------------- *)
HasExitReason(t) == t.exit_reason # NullStr

StrategyLabel(t) == IF t.strategy = NullStr THEN "No Strategy" ELSE t.strategy
HasRR(t) == t.risk_reward_ratio # NullNum

\* C16: getStrategyPerformance puts every trade of the input, whatever its
\* status, in exactly one bucket, the trades without strategy in the bucket
\* 'No Strategy'; the bucket counts sum to the length of the input; averageRR
\* of a bucket is the mean of the risk_reward_ratio values its trades have
\* (0 if none has one); the buckets come in non-increasing totalPL.
C16_Strategies ==
  Called("getStrategyPerformance") =>
    LET n == Len(result.value)
    IN  /\ \A k, l \in 1..n : result.value[k].strategy = result.value[l].strategy => k = l
        /\ \A i \in 1..Len(trades) :
             \E k \in 1..n : result.value[k].strategy = StrategyLabel(trades[i])
        /\ \A k \in 1..n :
             LET InBucket(t) == StrategyLabel(t) = result.value[k].strategy
                 InBucketWithRR(t) == InBucket(t) /\ HasRR(t)
                 rrCount == CountWhere(trades, InBucketWithRR)
             IN  /\ result.value[k].trades = CountWhere(trades, InBucket)
                 /\ result.value[k].trades > 0
                 /\ result.value[k].averageRR =
                      IF rrCount = 0 THEN Zero
                      ELSE NumDiv(SumWhere(trades, InBucketWithRR, LAMBDA t : t.risk_reward_ratio),
                                  Num(rrCount))
        /\ SumSeq([k \in 1..n |-> Num(result.value[k].trades)]) = Num(Len(trades))
        /\ \A k \in 1..(n - 1) : NumGe(result.value[k].totalPL, result.value[k + 1].totalPL)

\* two trades without strategy, one of them with a risk_reward_ratio of 3 and
\* no status: one bucket 'No Strategy' of 2 trades whose averageRR is 3
C16_Witness ==
  /\ Called("getStrategyPerformance")
  /\ Len(trades) = 2
  /\ trades[1].strategy = NullStr /\ trades[1].risk_reward_ratio = NullNum
  /\ trades[1].status = "win"
  /\ trades[2].strategy = NullStr /\ trades[2].risk_reward_ratio = Num(3)
  /\ trades[2].status = NullStr
  /\ Len(result.value) = 1
  /\ result.value[1].strategy = "No Strategy"
  /\ result.value[1].trades = 2
  /\ result.value[1].averageRR = Num(3)

(* ---------------------------------------------------------------------- *)
(* C17: the eight rule fields                                              *)
(* ---------------------------------------------------------------------- *)
\* the rule fields of a trade
RuleFields ==
  { "rule_in_plan", "rule_bos", "rule_liquidity", "rule_trend", "rule_news", "rule_rr",
    "rule_emotions", "rule_lot_size" }

AnsweredYes(t, field) == RuleField(t, field) = "yes"

\* the entries of the result computed from the trades that answered 'yes' to
\* one rule field
EntriesOf(field) ==
  LET Yes(t) == AnsweredYes(t, field)
      YesWin(t) == Yes(t) /\ t.status = "win"
      n == CountWhere(trades, Yes)
      w == CountWhere(trades, YesWin)
  IN  { k \in 1..Len(result.value) :
          /\ result.value[k].trades = n
          /\ result.value[k].wins = w
          /\ result.value[k].winRate = NumMul(NumDiv(Num(w), Num(n)), Num(100))
          /\ result.value[k].totalPL = SumWhere(trades, Yes, EffectivePl) }

\* C17: getRulePerformance emits one entry for each of the eight rule fields
\* that some trade answered 'yes', with the count of those trades, their
\* wins, wins/trades*100 and the sum of their effective_pl, and no entry for a
\* field without a 'yes'.
C17_EightRules ==
  Called("getRulePerformance") =>
    LET answered == { f \in RuleFields : \E i \in 1..Len(trades) : AnsweredYes(trades[i], f) }
    IN  /\ Len(result.value) = Cardinality(answered)
        /\ \A f \in answered : EntriesOf(f) # {}

(* ---------------------------------------------------------------------- *)
(* C18: one tag list, four encodings                                       *)
(* ---------------------------------------------------------------------- *)
MaxTags == 2

S_ok == <<"o", "k">>
S_Calm == <<"C", "a", "l", "m">>
S_x == <<"x">>
\* emotion tags as entered: of one, two and more characters, one of them in
\* two cases
TagWords == {S_FOMO, S_revenge, S_Calm, S_calm, S_ok, S_x}

\* s[1] sep s[2] sep ... s[n]
RECURSIVE Join(_, _)
Join(ss, sep) ==
  IF ss = <<>> THEN <<>>
  ELSE IF Len(ss) = 1 THEN ss[1]
  ELSE ss[1] \o sep \o Join(Tail(ss), sep)

Quoted(tag) == <<"\"">> \o tag \o <<"\"">>

\* the four forms in which a list of tags is stored
Encodings == {"array", "json", "brace", "comma"}
Encode(encoding, tags) ==
  CASE encoding = "array" -> EmoArray(tags)
    [] encoding = "json"  -> EmoString(<<"[">> \o Join(MapSeq(Quoted, tags), <<",">>) \o <<"]">>)
    [] encoding = "brace" -> EmoString(<<"{">> \o Join(tags, <<",">>) \o <<"}">>)
    [] encoding = "comma" -> EmoString(Join(tags, <<",", " ">>))

TagLists == UNION { [1..k -> TagWords] : k \in 0..MaxTags }

\* a completed trade carrying a list of tags in one of the four forms
EncodedTrade(encoding, tags, status, rule_emotions) ==
  [BaseTrade EXCEPT !.status = status, !.reward_amount = Num(100),
                    !.rule_emotions = rule_emotions,
                    !.emotions_array = Encode(encoding, tags)]

InitEncodings ==
  /\ \E encoding \in Encodings, tags \in TagLists, status \in {"win", "loss"},
        rule_emotions \in {NullStr, "yes", "no"} :
       trades = << EncodedTrade(encoding, tags, status, rule_emotions) >>
  /\ result = NoResult
  /\ NoBackend
  /\ NoHook

NextEncodings == Call_getEmotionPerformance

SpecEncodings == InitEncodings /\ [][NextEncodings]_vars

\* C18: a list of tags of two characters or more, stored as a native array,
\* as a JSON bracket string, as a brace string or as a comma string, in the
\* case it was entered in or in lower case, gives the same result of
\* getEmotionPerformance.
C18_FourEncodings ==
  ( /\ Called("getEmotionPerformance")
    /\ trades[1].emotions_array.kind = "array"
    /\ \A j \in 1..Len(trades[1].emotions_array.val) :
         Len(trades[1].emotions_array.val[j]) >= 2 ) =>
    LET tags == trades[1].emotions_array.val
    IN  \A encoding \in Encodings, ts \in {tags, MapSeq(ToLowerCase, tags)} :
          getEmotionPerformance(<< [trades[1] EXCEPT !.emotions_array = Encode(encoding, ts)] >>)
            = result.value

\* the call on the native array of FOMO and revenge has returned the buckets
\* FOMO and Revenge, as the brace string {fomo,revenge} does
C18_Witness ==
  /\ Called("getEmotionPerformance")
  /\ trades[1].emotions_array = EmoArray(<<S_FOMO, S_revenge>>)
  /\ trades[1].rule_emotions = NullStr
  /\ Encode("brace", MapSeq(ToLowerCase, <<S_FOMO, S_revenge>>)) =
       EmoString(<<"{", "f", "o", "m", "o", ",", "r", "e", "v", "e", "n", "g", "e", "}">>)
  /\ {result.value[k].emotion : k \in 1..Len(result.value)} =
       {S_FOMO, <<"R", "e", "v", "e", "n", "g", "e">>}

(* ---------------------------------------------------------------------- *)
(* C19: the tag set of one trade                                           *)
(* ---------------------------------------------------------------------- *)
\* a tag in title case, the acronym FOMO in upper case
TitleCase(tag) ==
  IF ToUpperCase(tag) = S_FOMO THEN S_FOMO
  ELSE <<UpperChar(tag[1])>> \o ToLowerCase(Tail(tag))

\* the tag set of a trade whose tags are stored as a native array
TagSet(t) ==
  { TitleCase(t.emotions_array.val[j]) :
      j \in { i \in 1..Len(t.emotions_array.val) : Len(t.emotions_array.val[i]) >= 2 } }
  \cup (IF t.rule_emotions = "yes" THEN {S_Calm}
        ELSE IF t.rule_emotions = "no" THEN {<<"A", "n", "x", "i", "o", "u", "s">>}
        ELSE {})

\* C19: the buckets of one trade are its stored tags of two characters or
\* more in title case (FOMO in upper case) and 'Calm' or 'Anxious' for
\* rule_emotions 'yes' or 'no'; each bucket counts the trade once, also when
\* two stored tags differ by case only or a stored tag is the synthetic one;
\* no bucket has a label of less than two characters.
C19_TagSet ==
  (Called("getEmotionPerformance") /\ trades[1].emotions_array.kind = "array") =>
    /\ {result.value[k].emotion : k \in 1..Len(result.value)} = TagSet(trades[1])
    /\ \A k, l \in 1..Len(result.value) :
         result.value[k].emotion = result.value[l].emotion => k = l
    /\ \A k \in 1..Len(result.value) :
         /\ result.value[k].count = 1
         /\ Len(result.value[k].emotion) >= 2

\* the stored tags are calm and x and rule_emotions is 'yes': the one bucket
\* is Calm, with count 1
C19_Witness ==
  /\ Called("getEmotionPerformance")
  /\ trades[1].emotions_array = EmoArray(<<S_calm, S_x>>)
  /\ trades[1].rule_emotions = "yes"
  /\ Len(result.value) = 1
  /\ result.value[1].emotion = S_Calm
  /\ result.value[1].count = 1

(* ---------------------------------------------------------------------- *)
(* C20: expectancy of an emotion                                           *)
(* ---------------------------------------------------------------------- *)
\* C20: a bucket of getEmotionPerformance reports expectancy = winRate *
\* avgWin - (1 - winRate) * avgLoss, where winRate = wins / count, avgWin is
\* the sum of |effective_pl| of the wins of the bucket over their number (0
\* without wins), avgLoss the same for the losses, and avgPL = totalPL /
\* count; the buckets come in non-increasing expectancy.
C20_EmotionExpectancy ==
  Called("getEmotionPerformance") =>
    /\ \A k \in 1..Len(result.value) :
         LET InBucket(t) == HasStatus(t) /\ Contains(getEmotionPerformance_normalized(t),
                                                     result.value[k].emotion)
             WinIn(t) == InBucket(t) /\ IsWin(t)
             LossIn(t) == InBucket(t) /\ IsLoss(t)
             count == CountWhere(trades, InBucket)
             wins == CountWhere(trades, WinIn)
             losses == CountWhere(trades, LossIn)
             winRate == NumDiv(Num(wins), Num(count))
             avgWin == IF wins = 0 THEN Zero
                       ELSE NumDiv(SumWhere(trades, WinIn, AbsEffectivePl), Num(wins))
             avgLoss == IF losses = 0 THEN Zero
                        ELSE NumDiv(SumWhere(trades, LossIn, AbsEffectivePl), Num(losses))
         IN  /\ count > 0
             /\ result.value[k].count = count
             /\ result.value[k].wins = wins
             /\ result.value[k].losses = losses
             /\ result.value[k].winRate = NumMul(winRate, Num(100))
             /\ result.value[k].avgPL = NumDiv(SumWhere(trades, InBucket, EffectivePl), Num(count))
             /\ result.value[k].expectancy =
                  NumSub(NumMul(winRate, avgWin), NumMul(NumSub(Num(1), winRate), avgLoss))
    /\ \A k \in 1..(Len(result.value) - 1) :
         NumGe(result.value[k].expectancy, result.value[k + 1].expectancy)

\* FOMO on a loss of 100 and on a breakeven trade: no win, the one loss
\* weighs 1 - winRate = 1, expectancy -100, avgPL -50
C20_Witness ==
  /\ Called("getEmotionPerformance")
  /\ Len(trades) = 2
  /\ \E i \in 1..2 : trades[i].status = "breakeven"
  /\ \E k \in 1..Len(result.value) :
       /\ result.value[k].emotion = S_FOMO
       /\ result.value[k].count = 2
       /\ result.value[k].wins = 0
       /\ result.value[k].losses = 1
       /\ result.value[k].expectancy = Num(-100)
       /\ result.value[k].avgPL = Num(-50)

(* ---------------------------------------------------------------------- *)
(* C21: expectancy of a setup grade                                        *)
(* ---------------------------------------------------------------------- *)
\* the grades, best first
Grades == <<"A+", "A", "B", "C">>
GradePosition(quality) == CHOOSE i \in 1..Len(Grades) : Grades[i] = quality

\* C21: for a group of trades that share a setup_type and an emotion tag, the
\* expectancy getSetupQualityStats reports for the grade is the expectancy
\* getEmotionPerformance reports for the tag, (winRate * avgWin) -
\* ((1 - winRate) * avgLoss); the grades come 'A+', 'A', 'B', 'C'.
C21_SameExpectancy ==
  Called("getSetupQualityStats") =>
    /\ \A k \in 1..Len(result.value) :
         LET group == SelectSeq(trades, LAMBDA t : HasStatus(t)
                                  /\ t.setup_type = result.value[k].quality)
             byEmotion == getEmotionPerformance(group)
         IN  \A j \in 1..Len(byEmotion) :
               byEmotion[j].count = Len(group) =>
                 byEmotion[j].expectancy = result.value[k].expectancy
    /\ \A k, l \in 1..Len(result.value) :
         k < l => GradePosition(result.value[k].quality) < GradePosition(result.value[l].quality)

(* ---------------------------------------------------------------------- *)
(* C22: monthly buckets                                                    *)
(* ---------------------------------------------------------------------- *)
MonthOf(t) == <<t.exit_date[1], t.exit_date[2]>>

MonthBefore(a, b) == a[1] < b[1] \/ (a[1] = b[1] /\ a[2] < b[2])

RECURSIVE SumTrades(_)
SumTrades(entries) ==
  IF entries = <<>> THEN 0 ELSE Head(entries).trades + SumTrades(Tail(entries))

\* C22: getMonthlyPerformance counts exactly the trades with a non-null
\* exit_date and status, one bucket per distinct year-month of exit_date; each
\* bucket reports profit = sum of effective_pl, trades = count and winRate =
\* wins / trades * 100; the buckets come in strictly ascending year-month order
\* and their trade counts sum to the number of counted trades.
C22_MonthlyBuckets ==
  Called("getMonthlyPerformance") =>
    LET months == {MonthOf(trades[i]) : i \in {j \in 1..Len(trades) : Closed(trades[j])}}
    IN  /\ {result.value[k].month : k \in 1..Len(result.value)} = months
        /\ Len(result.value) = Cardinality(months)
        /\ \A k \in 1..Len(result.value) :
             LET InBucket(t) == Closed(t) /\ MonthOf(t) = result.value[k].month
                 n == CountWhere(trades, InBucket)
                 w == CountWhere(trades, LAMBDA t : InBucket(t) /\ t.status = "win")
             IN  /\ result.value[k].trades = n
                 /\ n > 0
                 /\ result.value[k].profit = EffectivePlOf(InBucket)
                 /\ result.value[k].winRate = NumMul(NumDiv(Num(w), Num(n)), Num(100))
        /\ \A k, l \in 1..Len(result.value) :
             k < l => MonthBefore(result.value[k].month, result.value[l].month)
        /\ SumTrades(result.value) = CountWhere(trades, Closed)

\* a January 2024 trade listed before a December 2023 one, and both bucketed
C22_Witness ==
  /\ Called("getMonthlyPerformance")
  /\ Len(trades) = 2
  /\ Closed(trades[1]) /\ Closed(trades[2])
  /\ MonthOf(trades[1]) = <<2024, 1>>
  /\ MonthOf(trades[2]) = <<2023, 12>>
  /\ Len(result.value) = 2

(* ---------------------------------------------------------------------- *)
(* C23: largest win and largest loss                                       *)
(* ---------------------------------------------------------------------- *)
\* C23: largestWin is the maximum |effective_pl| among the wins (0 without
\* wins), largestLoss the minimum signed effective_pl among the losses (0
\* without losses); largestWin >= 0 and largestLoss <= 0.
C23_LargestWinLoss ==
  StatsCalled =>
    LET winAmounts  == MapSeq(AbsEffectivePl, SelectSeq(trades, IsWin))
        lossAmounts == MapSeq(EffectivePl, SelectSeq(trades, IsLoss))
    IN  /\ result.value.largestWin =
             (IF winAmounts = <<>> THEN Zero ELSE MathMax(winAmounts))
        /\ result.value.largestLoss =
             (IF lossAmounts = <<>> THEN Zero ELSE MathMin(lossAmounts))
        /\ NumGe(result.value.largestWin, Zero)
        /\ NumGe(Zero, result.value.largestLoss)

(* ---------------------------------------------------------------------- *)
(* C24, C25: risk/reward, risk amount and pips                             *)
(* ---------------------------------------------------------------------- *)
MeanOf(f(_), ts) == NumDiv(SumSeq(MapSeq(f, ts)), Num(Len(ts)))

RiskRewardRatio(t) == t.risk_reward_ratio

C24_FallbackWitness ==
  /\ StatsCalled
  /\ \A i \in 1..Len(trades) : ~HasRR(trades[i])
  /\ result.value.averageLoss = Num(50)
  /\ result.value.averageRR = Num(2)

RiskAmount(t) == t.risk_amount
Pips(t) == t.pips
HasRisk(t) == HasStatus(t) /\ t.risk_amount # NullNum
HasPips(t) == HasStatus(t) /\ t.pips # NullNum

\* C25: totalRiskAmount and totalPips are sums over only the completed trades
\* whose risk_amount (resp. pips) is non-null; averageRiskAmount and averagePips
\* divide those sums by the number of trades having the field, not by the
\* number of completed trades; each average is 0 when no trade has the field.
C25_RiskAndPips ==
  StatsCalled =>
    LET nRisk == CountWhere(trades, HasRisk)
        nPips == CountWhere(trades, HasPips)
    IN  /\ result.value.totalRiskAmount = SumWhere(trades, HasRisk, RiskAmount)
        /\ result.value.totalPips = SumWhere(trades, HasPips, Pips)
        /\ result.value.averageRiskAmount =
             (IF nRisk = 0 THEN Zero ELSE NumDiv(result.value.totalRiskAmount, Num(nRisk)))
        /\ result.value.averagePips =
             (IF nPips = 0 THEN Zero ELSE NumDiv(result.value.totalPips, Num(nPips)))

\* two completed trades of which one has a risk_amount: the average is that
\* amount, not half of it
C25_Witness ==
  /\ StatsCalled
  /\ result.value.totalTrades = 2
  /\ CountWhere(trades, HasRisk) = 1
  /\ result.value.totalRiskAmount = Num(50)
  /\ result.value.averageRiskAmount = Num(50)
  /\ CountWhere(trades, HasPips) = 1
  /\ result.value.averagePips = Num(-10)

(* ---------------------------------------------------------------------- *)
(* C26: buckets by symbol and by asset class                               *)
(* ---------------------------------------------------------------------- *)
RECURSIVE SumValues(_)
SumValues(entries) ==
  IF entries = <<>> THEN 0 ELSE Head(entries).value + SumValues(Tail(entries))

TotalPL(entry) == entry.totalPL
Profit(entry) == entry.profit
AnyTrade(t) == TRUE
Decided(t) == t.status \in {"win", "loss", "breakeven"}

\* C26: getPairPerformance and getTradesByAssetClass place every input trade,
\* whatever its status, in exactly one bucket (by symbol, resp. asset_class):
\* the bucket counts sum to the input length and the bucket P&L totals to the
\* sum of effective_pl over the input; per symbol wins + losses + breakeven <=
\* trades, with equality exactly when every trade of the symbol is a win, a
\* loss or a breakeven; the pair buckets come in non-increasing trade count.
C26_PairAndAssetBuckets ==
  /\ Called("getPairPerformance") =>
       /\ \A k, l \in 1..Len(result.value) :
            k # l => result.value[k].symbol # result.value[l].symbol
       /\ \A i \in 1..Len(trades) :
            \E k \in 1..Len(result.value) : result.value[k].symbol = trades[i].symbol
       /\ \A k \in 1..Len(result.value) :
            LET e == result.value[k]
                OfSymbol(t) == t.symbol = e.symbol
            IN  /\ e.trades = CountWhere(trades, OfSymbol)
                /\ e.wins + e.losses + e.breakeven <= e.trades
                /\ (e.wins + e.losses + e.breakeven = e.trades)
                     <=> (\A i \in 1..Len(trades) : OfSymbol(trades[i]) => Decided(trades[i]))
       /\ SumTrades(result.value) = Len(trades)
       /\ SumSeq(MapSeq(TotalPL, result.value)) = EffectivePlOf(AnyTrade)
       /\ \A k, l \in 1..Len(result.value) :
            k < l => result.value[k].trades >= result.value[l].trades
  /\ Called("getTradesByAssetClass") =>
       /\ \A k, l \in 1..Len(result.value) :
            k # l => result.value[k].name # result.value[l].name
       /\ \A i \in 1..Len(trades) :
            \E k \in 1..Len(result.value) :
              result.value[k].name = CapitalizeAssetClass(trades[i].asset_class)
       /\ \A k \in 1..Len(result.value) :
            result.value[k].value =
              CountWhere(trades, LAMBDA t : CapitalizeAssetClass(t.asset_class) = result.value[k].name)
       /\ SumValues(result.value) = Len(trades)
       /\ SumSeq(MapSeq(Profit, result.value)) = EffectivePlOf(AnyTrade)

\* one EURUSD win followed by two BTCUSD trades, one of them open: BTCUSD comes
\* first with 2 trades of which 1 is decided
C26_Witness ==
  /\ Called("getPairPerformance")
  /\ trades = PairOrderTrades
  /\ Len(result.value) = 2
  /\ result.value[1].symbol = "BTCUSD"
  /\ result.value[1].trades = 2
  /\ result.value[1].wins + result.value[1].losses + result.value[1].breakeven = 1
  /\ result.value[2].symbol = "EURUSD"

(* ---------------------------------------------------------------------- *)
(* C30: the statistics agree with each other                               *)
(* ---------------------------------------------------------------------- *)
\* every win has effective_pl >= 0, every loss effective_pl <= 0 and every
\* other completed trade effective_pl = 0
SignsFollowStatus(ts) ==
  \A i \in 1..Len(ts) :
    HasStatus(ts[i]) =>
      CASE IsWin(ts[i])  -> NumGe(EffectivePl(ts[i]), Zero)
        [] IsLoss(ts[i]) -> NumGe(Zero, EffectivePl(ts[i]))
        [] OTHER         -> EffectivePl(ts[i]) = Zero

\* C30: on a list where the sign of effective_pl follows the status,
\* expectancy * totalTrades = averageWin * winningTrades - averageLoss *
\* losingTrades = totalProfitLoss; when moreover every completed trade has an
\* exit_date, the last point of getEquityCurve and the sum of the
\* getMonthlyPerformance profits both equal totalProfitLoss.
C30_MutuallyConsistent ==
  (Called("calculateStats") /\ SignsFollowStatus(trades)) =>
    LET st == result.value
        byAverages == NumSub(NumMul(st.averageWin, Num(st.winningTrades)),
                             NumMul(st.averageLoss, Num(st.losingTrades)))
        curve == getEquityCurve(trades)
        monthly == getMonthlyPerformance(trades)
    IN  /\ NumMul(st.expectancy, Num(st.totalTrades)) = byAverages
        /\ byAverages = st.totalProfitLoss
        /\ (\A i \in 1..Len(trades) : HasStatus(trades[i]) => trades[i].exit_date # NullNum) =>
             /\ curve # <<>> => curve[Len(curve)].equity = st.totalProfitLoss
             /\ SumSeq(MapSeq(Profit, monthly)) = st.totalProfitLoss

(* ====================================================================== *)
(* The useTrades hook (hooks/useTrades.tsx)                                *)
(*                                                                         *)
(* In this part `trades` is the state of the hook (useState<Trade[]>),     *)
(* trades_table the trades table in insertion order, user the user of      *)
(* useAuth.  Every await of a handler is a step: the statement reaches the *)
(* database when the handler is called, and its response arrives in a      *)
(* later step, so that the responses of calls in flight, the realtime      *)
(* events and the sign-out interleave.  A row keeps the columns the P&L    *)
(* resolution reads.                                                       *)
(* ====================================================================== *)
MaxRows == 2
MaxPending == 1

HookUser == "u1"

\* the slot of a deleted row: an id is never given twice
DeletedRow == [id |-> 0, status |-> NullStr, reward_amount |-> NullNum, profit_loss |-> NullNum]

Has(formData, field) == field \in DOMAIN formData

\* TradeFormData: status is required, reward_amount optional
AddForms ==
  { [status |-> st] : st \in {"win", "loss"} }
  \cup { [status |-> st, reward_amount |-> r] : st \in {"win", "loss"}, r \in {Num(0), Num(100)} }

\* Partial<TradeFormData>: any subset of the fields
UpdateForms ==
  { [status |-> st] : st \in {"win", "loss"} }
  \cup { [reward_amount |-> Num(50)] }
  \cup { [status |-> st, reward_amount |-> Num(50)] : st \in {"win", "loss"} }

\* lines 85-124: tradeData, for the row of id
addTrade_tradeData(id, formData) ==
  LET reward == IF Has(formData, "reward_amount") THEN formData.reward_amount ELSE NullNum
  IN  [ id            |-> id,
        status        |-> formData.status,
        reward_amount |-> NumOr(reward, NullNum),
        profit_loss   |-> IF NumOr(reward, NullNum) # NullNum
                          THEN (IF formData.status = "loss" THEN NumNeg(NumAbs(reward)) ELSE reward)
                          ELSE NullNum ]

\* lines 142-154: the row after .update(updateData): the fields of formData,
\* and profit_loss when formData has both reward_amount and a status
updateTrade_updated(row, formData) ==
  LET status == IF Has(formData, "status") THEN formData.status ELSE row.status
      reward == IF Has(formData, "reward_amount") THEN formData.reward_amount
                ELSE row.reward_amount
  IN  [ row EXCEPT !.status = status, !.reward_amount = reward,
                   !.profit_loss =
                     IF Has(formData, "reward_amount") /\ Has(formData, "status")
                     THEN (IF formData.status = "loss"
                           THEN NumNeg(NumAbs(formData.reward_amount))
                           ELSE formData.reward_amount)
                     ELSE @ ]

Reverse(s) == [i \in 1..Len(s) |-> s[Len(s) + 1 - i]]

\* lines 60-64: select('*').eq('user_id', user.id).order('entry_date', desc),
\* under the row-level policy of the table: without a session no row is
\* visible.  The trades are entered in the order they are taken, so the latest
\* row comes first
fetchTrades_select(session) ==
  IF session = NullStr THEN <<>>
  ELSE Reverse(SelectSeq(trades_table, LAMBDA row : row # DeletedRow))

\* a call in flight: the handler, the id it is about, whether the database
\* answers with an error, and the rows it holds (the data of a select, the
\* `trades` in the closure of deleteTrade)
Call(op, id, error, data) == [op |-> op, id |-> id, error |-> error, data |-> data]

Room == Cardinality(pending) < MaxPending

ExistsIn(list, id) == \E i \in 1..Len(list) : list[i].id = id

\* mutant: the event prepended without looking at the list
INSERT_handler_unchecked(prev, mappedTrade) == <<mappedTrade>> \o prev

\* lines 42-46: setTrades(prev => exists ? prev : [mappedTrade, ...prev])
INSERT_handler(prev, mappedTrade) ==
  IF ExistsIn(prev, mappedTrade.id) THEN prev ELSE <<mappedTrade>> \o prev

InitHook ==
  /\ trades = <<>>
  /\ result = NoResult
  /\ NoBackend
  /\ NoHook

\* lines 13-20 and 22-49 with a user: fetchTrades is called and the channel of
\* the user is subscribed
SignIn(error) ==
  /\ user = NullStr
  /\ Room
  /\ user' = HookUser
  /\ pending' = pending \cup {Call("fetchTrades", 0, error, fetchTrades_select(HookUser))}
  /\ channel' = {}
  /\ result' = NoResult
  /\ UNCHANGED <<trades, trades_table>>
  /\ UNCHANGED backendVars

\* lines 13-20 and 51-53 without a user: the list is emptied and the channel
\* removed; the calls in flight stay in flight
SignOut ==
  /\ user # NullStr
  /\ user' = NullStr
  /\ trades' = <<>>
  /\ channel' = {}
  /\ result' = NoResult
  /\ UNCHANGED <<trades_table, pending>>
  /\ UNCHANGED backendVars

\* refetch (fetchTrades), lines 56-64
refetch(error) ==
  /\ user # NullStr
  /\ Room
  /\ pending' = pending \cup {Call("fetchTrades", 0, error, fetchTrades_select(user))}
  /\ result' = NoResult
  /\ UNCHANGED <<trades, user, trades_table, channel>>
  /\ UNCHANGED backendVars

\* lines 66-79: the response of the select arrives
fetchTrades_done(call) ==
  /\ call \in pending
  /\ call.op = "fetchTrades"
  /\ trades' = IF call.error THEN trades ELSE call.data
  /\ pending' = pending \ {call}
  /\ result' = NoResult
  /\ UNCHANGED <<user, trades_table, channel>>
  /\ UNCHANGED backendVars

\* lines 82-126: addTrade builds tradeData and inserts it; the insert is
\* published on the channel
addTrade(formData, error) ==
  /\ user # NullStr
  /\ Room
  /\ Len(trades_table) < MaxRows
  /\ LET tradeData == addTrade_tradeData(Len(trades_table) + 1, formData)
     IN  IF error
         THEN UNCHANGED <<trades_table, channel>>
         ELSE /\ trades_table' = Append(trades_table, tradeData)
              /\ channel' = channel \cup {tradeData}
  /\ pending' = pending \cup {Call("addTrade", 0, error, <<>>)}
  /\ result' = NoResult
  /\ UNCHANGED <<trades, user>>
  /\ UNCHANGED backendVars

\* lines 139-166: updateTrade updates the row of that id
updateTrade(id, formData, error) ==
  /\ user # NullStr
  /\ Room
  /\ ExistsIn(trades, id)
  /\ trades_table' =
       IF error \/ trades_table[id] = DeletedRow THEN trades_table
       ELSE [trades_table EXCEPT ![id] = updateTrade_updated(@, formData)]
  /\ pending' = pending \cup {Call("updateTrade", id, error, <<>>)}
  /\ result' = NoResult
  /\ UNCHANGED <<trades, user, channel>>
  /\ UNCHANGED backendVars

\* lines 128-136 and 168-176: the response of the insert or update arrives;
\* without error fetchTrades is called, with the user of the render of the call
refetchAfterWrite(call, error) ==
  /\ call \in pending
  /\ call.op \in {"addTrade", "updateTrade"}
  /\ pending' = IF call.error THEN pending \ {call}
                ELSE (pending \ {call})
                       \cup {Call("fetchTrades", 0, error, fetchTrades_select(user))}
  /\ result' = NoResult
  /\ UNCHANGED <<trades, user, trades_table, channel>>
  /\ UNCHANGED backendVars

\* lines 179-186: deleteTrade deletes the row; `trades` of the render of the
\* call stays in the closure
deleteTrade(id, error) ==
  /\ user # NullStr
  /\ Room
  /\ ExistsIn(trades, id)
  /\ trades_table' =
       IF error THEN trades_table ELSE [trades_table EXCEPT ![id] = DeletedRow]
  /\ pending' = pending \cup {Call("deleteTrade", id, error, trades)}
  /\ result' = NoResult
  /\ UNCHANGED <<trades, user, channel>>
  /\ UNCHANGED backendVars

\* line 189: trades.filter(t => t.id !== id), on the list of the closure
deleteTrade_filtered(closure, id) ==
  SelectSeq(closure, LAMBDA t : t.id # id)

\* lines 188-196: the response of the delete arrives
deleteTrade_done(call) ==
  /\ call \in pending
  /\ call.op = "deleteTrade"
  /\ trades' = IF call.error THEN trades
               ELSE deleteTrade_filtered(call.data, call.id)
  /\ pending' = pending \ {call}
  /\ result' = NoResult
  /\ UNCHANGED <<user, trades_table, channel>>
  /\ UNCHANGED backendVars

\* lines 35-47: an INSERT event is delivered; it may be delivered again
INSERT(payload, again) ==
  /\ payload \in channel
  /\ trades' = INSERT_handler(trades, payload)
  /\ channel' = IF again THEN channel ELSE channel \ {payload}
  /\ result' = Returned("INSERT", ExistsIn(trades, payload.id))
  /\ UNCHANGED <<user, trades_table, pending>>
  /\ UNCHANGED backendVars

\* the form of the concurrent scenario: one winning trade
PlainForm == [status |-> "win", reward_amount |-> Num(100)]

\* a row of the user inserted by someone else (the hook of another page, the
\* mt5-webhook function): the insert is published on the channel if there is one
InsertedElsewhere ==
  /\ Len(trades_table) < MaxRows
  /\ LET row == addTrade_tradeData(Len(trades_table) + 1, PlainForm)
     IN  /\ trades_table' = Append(trades_table, row)
         /\ channel' = IF user # NullStr THEN channel \cup {row} ELSE channel
  /\ result' = NoResult
  /\ UNCHANGED <<trades, user, pending>>
  /\ UNCHANGED backendVars

NextHook ==
  \/ \E error \in BOOLEAN : SignIn(error)
  \/ SignOut
  \/ refetch(FALSE)
  \/ \E call \in pending : fetchTrades_done(call)
  \/ \E error \in BOOLEAN : addTrade(PlainForm, error)
  \/ \E call \in pending : refetchAfterWrite(call, FALSE)
  \/ \E id \in 1..MaxRows, error \in BOOLEAN : deleteTrade(id, error)
  \/ \E call \in pending : deleteTrade_done(call)
  \/ \E payload \in channel, again \in BOOLEAN : INSERT(payload, again)
  \/ InsertedElsewhere

SpecHook == InitHook /\ [][NextHook]_vars

\* the hook of the trade form, on one trade: the trade is added, then updated
\* any number of times; the form waits for the answer of a call before the next
NextJournal ==
  \/ SignIn(FALSE)
  \/ \E call \in pending : fetchTrades_done(call)
  \/ \E formData \in AddForms, error \in BOOLEAN :
       pending = {} /\ trades_table = <<>> /\ addTrade(formData, error)
  \/ \E id \in 1..MaxRows, formData \in UpdateForms, error \in BOOLEAN :
       pending = {} /\ updateTrade(id, formData, error)
  \/ \E call \in pending : refetchAfterWrite(call, FALSE)
  \/ \E payload \in channel : INSERT(payload, FALSE)

SpecJournal == InitHook /\ [][NextJournal]_vars

(* ---------------------------------------------------------------------- *)
(* C27: profit_loss of the stored rows                                     *)
(* ---------------------------------------------------------------------- *)
ProfitLossResolved(row) ==
  row.reward_amount # NullNum => row.profit_loss = EffectivePl(row)

\* C27: after any sequence of addTrade and updateTrade calls on a trade, with
\* any subset of the fields, every stored row whose reward_amount is non-null
\* has profit_loss equal to its effective P&L (-|reward_amount| for a stored
\* status 'loss', reward_amount otherwise), in the table and in the list the
\* calendar reads.
C27_ProfitLossFollowsReward ==
  /\ \A i \in 1..Len(trades_table) :
       trades_table[i] # DeletedRow => ProfitLossResolved(trades_table[i])
  /\ \A i \in 1..Len(trades) : ProfitLossResolved(trades[i])

(* ---------------------------------------------------------------------- *)
(* C28: what deleteTrade removes from the list                             *)
(* ---------------------------------------------------------------------- *)
\* C28: whatever the interleaving of fetchTrades completions, realtime INSERT
\* events and deleteTrade completions, a successful deleteTrade(id) removes
\* only the trade of that id from the list: a trade that entered the list
\* while the delete was in flight is still in it afterwards.
C28_DeleteRemovesOnlyThatTrade ==
  [][ \A call \in pending :
        (deleteTrade_done(call) /\ ~call.error) =>
          trades' = SelectSeq(trades, LAMBDA t : t.id # call.id) ]_vars

(* ---------------------------------------------------------------------- *)
(* C29: no id twice in the list                                            *)
(* ---------------------------------------------------------------------- *)
NoDuplicateIds ==
  \A i, j \in 1..Len(trades) : trades[i].id = trades[j].id => i = j

====
